---- MODULE Spec2Model ----
(***************************************************************************)
(* Intent routing and function dispatch of the WhatsApp bot: the chatbot   *)
(* router (handleChatbotMessage), the two model backends (callOpenAI,      *)
(* callOllama), the textual function-call parser (parseFunctionCallText),  *)
(* parameter extraction and validation (parameterExtraction.js) and the    *)
(* webhook registry (webhookHandler.js).                                   *)
(*                                                                         *)
(* Texts are TLA+ strings handled character by character with Len, SubSeq  *)
(* and \o, so that the regular expressions and the substring tests of the  *)
(* source are computed, not assumed.                                       *)
(***************************************************************************)
EXTENDS Integers, Sequences, FiniteSets, TLC

(***************************************************************************)
(* JavaScript values                                                       *)
(***************************************************************************)
\* JavaScript null / undefined / an absent regex group, as reserved strings.
NULL == "<null>"

UNDEFINED == "<undefined>"

\* JavaScript truthiness of a string-or-null value ( if (v) ... ).
Truthy(v) == v \notin {NULL, UNDEFINED, ""}

\* a || b
OrElse(a, b) == IF Truthy(a) THEN a ELSE b

\* {} : the object without own properties.
EmptyMap == [k \in {} |-> NULL]

\* obj.hasOwnProperty(k)
HasOwn(m, k) == k \in DOMAIN m

\* obj[k] : undefined when the property is absent.
Get(m, k) == IF k \in DOMAIN m THEN m[k] ELSE UNDEFINED

\* obj[k] = v
Put(m, k, v) == [x \in (DOMAIN m) \cup {k} |-> IF x = k THEN v ELSE m[x]]

Min(S) == CHOOSE x \in S : \A y \in S : x <= y

(***************************************************************************)
(* String primitives (String.prototype and RegExp character classes)       *)
(***************************************************************************)
CharAt(s, i) == IF i >= 1 /\ i <= Len(s) THEN SubSeq(s, i, i) ELSE ""

\* s.startsWith(p, i-1)
StartsAt(s, p, i) == i >= 1 /\ i + Len(p) - 1 <= Len(s) /\ SubSeq(s, i, i + Len(p) - 1) = p

\* s.includes(p)
Includes(s, p) == \E i \in 1..(Len(s) + 1) : StartsAt(s, p, i)

\* s.indexOf(p, i-1) + 1 : smallest index j >= i at which p starts, 0 when there is none
IndexFrom(s, p, i) ==
    LET S == {j \in i..(Len(s) + 1) : StartsAt(s, p, j)}
    IN  IF S = {} THEN 0 ELSE Min(S)

\* s.substring(i-1)
From(s, i) == IF i > Len(s) THEN "" ELSE SubSeq(s, i, Len(s))

\* s.substring(i-1, j) ; empty when j < i
Sub(s, i, j) == IF j < i THEN "" ELSE SubSeq(s, i, j)

\* the characters of a string, as a character class
Chars(s) == {SubSeq(s, i, i) : i \in 1..Len(s)}

LowerLetters == "abcdefghijklmnopqrstuvwxyz"

UpperLetters == "ABCDEFGHIJKLMNOPQRSTUVWXYZ"

\* \s
Spaces == {" ", "\n", "\t", "\r"}

\* ['"]
Quotes == {"'", "\""}

\* \w  (ASCII letters, digits and underscore; accented letters are not \w)
WordChars == Chars(LowerLetters \o UpperLetters \o "0123456789_")

\* toLowerCase of one character
LowerChar(c) ==
    IF c \in Chars(UpperLetters) THEN CharAt(LowerLetters, IndexFrom(UpperLetters, c, 1)) ELSE c

RECURSIVE toLowerCase(_)
toLowerCase(s) == IF s = "" THEN "" ELSE LowerChar(Head(s)) \o toLowerCase(Tail(s))

\* end (exclusive) of the maximal run, starting at i, of characters that are
\* in the class (member = TRUE) or not in it (member = FALSE)
RECURSIVE SkipWhile(_, _, _, _)
SkipWhile(s, i, class, member) ==
    IF i <= Len(s) /\ ((CharAt(s, i) \in class) = member)
    THEN SkipWhile(s, i + 1, class, member)
    ELSE i

RECURSIVE TrimRight(_)
TrimRight(s) ==
    IF s # "" /\ CharAt(s, Len(s)) \in Spaces THEN TrimRight(SubSeq(s, 1, Len(s) - 1)) ELSE s

\* s.trim()
Trim(s) == TrimRight(From(s, SkipWhile(s, 1, Spaces, TRUE)))

\* s.replace(/\s+/g, ' ')
RECURSIVE CollapseSpaces(_)
CollapseSpaces(s) ==
    IF s = "" THEN ""
    ELSE IF Head(s) \in Spaces
    THEN " " \o CollapseSpaces(From(s, SkipWhile(s, 1, Spaces, TRUE)))
    ELSE Head(s) \o CollapseSpaces(Tail(s))

\* s.trim().split(/\s+/)[n-1], the empty string when there is no such word
RECURSIVE Word(_, _)
Word(s, n) ==
    IF n = 1 THEN Sub(Trim(s), 1, SkipWhile(Trim(s), 1, Spaces, FALSE) - 1)
    ELSE Word(From(Trim(s), SkipWhile(Trim(s), 1, Spaces, FALSE)), n - 1)

(***************************************************************************)
(* JSON.parse, for what the router feeds it: an object whose values are    *)
(* strings or null.  Anything else the inputs of this model produce (bare  *)
(* words, doubled quotes, a missing colon, trailing text) is a SyntaxError.*)
(***************************************************************************)
JSONError == [ok |-> FALSE, val |-> EmptyMap]

JSONValue(s, i) ==
    IF CharAt(s, i) = "\"" THEN
        LET e == IndexFrom(s, "\"", i + 1)
        IN  IF e = 0 THEN [ok |-> FALSE, val |-> NULL, next |-> i]
            ELSE [ok |-> TRUE, val |-> Sub(s, i + 1, e - 1), next |-> e + 1]
    ELSE IF StartsAt(s, "null", i) THEN [ok |-> TRUE, val |-> NULL, next |-> i + 4]
    ELSE [ok |-> FALSE, val |-> NULL, next |-> i]

RECURSIVE JSONMembers(_, _, _)
JSONMembers(s, i, acc) ==
    IF CharAt(s, i) # "\"" THEN JSONError
    ELSE LET ke == IndexFrom(s, "\"", i + 1)
         IN  IF ke = 0 THEN JSONError
             ELSE LET key == Sub(s, i + 1, ke - 1)
                      c   == SkipWhile(s, ke + 1, Spaces, TRUE)
                  IN  IF CharAt(s, c) # ":" THEN JSONError
                      ELSE LET v == JSONValue(s, SkipWhile(s, c + 1, Spaces, TRUE))
                           IN  IF ~v.ok THEN JSONError
                               ELSE LET n    == SkipWhile(s, v.next, Spaces, TRUE)
                                        acc2 == Put(acc, key, v.val)
                                    IN  IF CharAt(s, n) = "}"
                                        THEN IF SkipWhile(s, n + 1, Spaces, TRUE) = Len(s) + 1
                                             THEN [ok |-> TRUE, val |-> acc2]
                                             ELSE JSONError
                                        ELSE IF CharAt(s, n) = ","
                                        THEN JSONMembers(s, SkipWhile(s, n + 1, Spaces, TRUE), acc2)
                                        ELSE JSONError

JSONParse(s) ==
    LET i == SkipWhile(s, 1, Spaces, TRUE)
    IN  IF CharAt(s, i) # "{" THEN JSONError
        ELSE LET j == SkipWhile(s, i + 1, Spaces, TRUE)
             IN  IF CharAt(s, j) = "}"
                 THEN IF SkipWhile(s, j + 1, Spaces, TRUE) = Len(s) + 1
                      THEN [ok |-> TRUE, val |-> EmptyMap]
                      ELSE JSONError
                 ELSE JSONMembers(s, j, EmptyMap)

(***************************************************************************)
(* The replacements applied to the webhook payload before JSON.parse       *)
(***************************************************************************)
\* .replace(/'/g, '"')
RECURSIVE ReplaceSingleQuotes(_)
ReplaceSingleQuotes(s) ==
    IF s = "" THEN ""
    ELSE (IF Head(s) = "'" THEN "\"" ELSE Head(s)) \o ReplaceSingleQuotes(Tail(s))

\* .replace(/(\w+):/g, '"$1":')
RECURSIVE QuoteBareKeys(_)
QuoteBareKeys(s) ==
    IF s = "" THEN ""
    ELSE IF Head(s) \in WordChars
         THEN LET e == SkipWhile(s, 1, WordChars, TRUE)
              IN  IF CharAt(s, e) = ":"
                  THEN "\"" \o Sub(s, 1, e - 1) \o "\":" \o QuoteBareKeys(From(s, e + 1))
                  ELSE Sub(s, 1, e - 1) \o QuoteBareKeys(From(s, e))
         ELSE Head(s) \o QuoteBareKeys(Tail(s))

(***************************************************************************)
(* Function calls                                                          *)
(***************************************************************************)
\* functionCall = null ; a call is read with Get, so that functionCall.command
\* is undefined for a webhook call
NoCall == [type |-> "none"]

CommandCall(c, a) == [type |-> "command", command |-> c, args |-> a]

WebhookCall(w, d) == [type |-> "webhook", webhook |-> w, data |-> d]

IntentCall(i) == [type |-> "intent", intent |-> i]

NoMatch == [found |-> FALSE]

\* /__execute_command\(['"]([^'"]+)['"](?:,\s*['"]([^'"]+)['"])?\)/ tried at index i
CommandMatchAt(t, i) ==
    LET p  == i + Len("__execute_command(")
        e1 == SkipWhile(t, p + 1, Quotes, FALSE)
        j  == e1 + 1
        q  == SkipWhile(t, j + 1, Spaces, TRUE)
        e2 == SkipWhile(t, q + 1, Quotes, FALSE)
    IN  IF ~(StartsAt(t, "__execute_command(", i) /\ CharAt(t, p) \in Quotes
             /\ e1 > p + 1 /\ CharAt(t, e1) \in Quotes)
        THEN NoMatch
        ELSE IF CharAt(t, j) = "," /\ CharAt(t, q) \in Quotes /\ e2 > q + 1
                /\ CharAt(t, e2) \in Quotes /\ CharAt(t, e2 + 1) = ")"
        THEN [found |-> TRUE, g1 |-> Sub(t, p + 1, e1 - 1), g2 |-> Sub(t, q + 1, e2 - 1)]
        ELSE IF CharAt(t, j) = ")"
        THEN [found |-> TRUE, g1 |-> Sub(t, p + 1, e1 - 1), g2 |-> UNDEFINED]
        ELSE NoMatch

\* /__execute_webhook\(['"]([^'"]+)['"](?:,\s*({.+?}))?\)/s tried at index i
WebhookMatchAt(t, i) ==
    LET p  == i + Len("__execute_webhook(")
        e1 == SkipWhile(t, p + 1, Quotes, FALSE)
        j  == e1 + 1
        b  == SkipWhile(t, j + 1, Spaces, TRUE)
        K  == {k \in (b + 2)..Len(t) : CharAt(t, k) = "}" /\ CharAt(t, k + 1) = ")"}
    IN  IF ~(StartsAt(t, "__execute_webhook(", i) /\ CharAt(t, p) \in Quotes
             /\ e1 > p + 1 /\ CharAt(t, e1) \in Quotes)
        THEN NoMatch
        ELSE IF CharAt(t, j) = "," /\ CharAt(t, b) = "{" /\ K # {}
        THEN [found |-> TRUE, g1 |-> Sub(t, p + 1, e1 - 1), g2 |-> Sub(t, b, Min(K))]
        ELSE IF CharAt(t, j) = ")"
        THEN [found |-> TRUE, g1 |-> Sub(t, p + 1, e1 - 1), g2 |-> UNDEFINED]
        ELSE NoMatch

\* /__execute_intent\(['"]([^'"]+)['"](?:,\s*([\d\.]+))?\)/ tried at index i
IntentMatchAt(t, i) ==
    LET p  == i + Len("__execute_intent(")
        e1 == SkipWhile(t, p + 1, Quotes, FALSE)
        j  == e1 + 1
        q  == SkipWhile(t, j + 1, Spaces, TRUE)
        e2 == SkipWhile(t, q, Chars("0123456789."), TRUE)
    IN  IF ~(StartsAt(t, "__execute_intent(", i) /\ CharAt(t, p) \in Quotes
             /\ e1 > p + 1 /\ CharAt(t, e1) \in Quotes)
        THEN NoMatch
        ELSE IF CharAt(t, j) = "," /\ e2 > q /\ CharAt(t, e2) = ")"
        THEN [found |-> TRUE, g1 |-> Sub(t, p + 1, e1 - 1), g2 |-> Sub(t, q, e2 - 1)]
        ELSE IF CharAt(t, j) = ")"
        THEN [found |-> TRUE, g1 |-> Sub(t, p + 1, e1 - 1), g2 |-> UNDEFINED]
        ELSE NoMatch

\* String.prototype.match without the g flag, given the outcome of the
\* pattern at each index: the match at the leftmost index at which it matches
Match(at) ==
    LET S == {i \in DOMAIN at : at[i].found}
    IN  IF S = {} THEN NoMatch ELSE at[Min(S)]

\* the JSON.parse of the try block of the webhook branch
WebhookPayload(m) ==
    JSONParse(QuoteBareKeys(ReplaceSingleQuotes(IF m.g2 = UNDEFINED THEN "{}" ELSE m.g2)))

parseFunctionCallText(functionCallText) ==
    LET commandMatch == Match([i \in 1..Len(functionCallText) |-> CommandMatchAt(functionCallText, i)])
        webhookMatch == Match([i \in 1..Len(functionCallText) |-> WebhookMatchAt(functionCallText, i)])
        intentMatch  == Match([i \in 1..Len(functionCallText) |-> IntentMatchAt(functionCallText, i)])
    IN  IF commandMatch.found
        THEN CommandCall(commandMatch.g1, OrElse(commandMatch.g2, ""))
        ELSE IF webhookMatch.found /\ WebhookPayload(webhookMatch).ok
        THEN WebhookCall(webhookMatch.g1, WebhookPayload(webhookMatch).val)
        ELSE IF intentMatch.found
        THEN IntentCall(intentMatch.g1)
        ELSE NoCall

\* /__execute_(?:<names>)\([^)]+\)/ : [from, to] of the leftmost match
FunctionCallRegex(s, names) ==
    LET At(i, n) == LET p == i + Len("__execute_" \o n \o "(")
                    IN  /\ StartsAt(s, "__execute_" \o n \o "(", i)
                        /\ p <= Len(s) /\ CharAt(s, p) # ")"
                        /\ IndexFrom(s, ")", p) # 0
        S == {i \in 1..Len(s) : \E n \in names : At(i, n)}
    IN  IF S = {} THEN NoMatch
        ELSE LET i == Min(S)
                 n == CHOOSE n \in names : At(i, n)
             IN  [found |-> TRUE, from |-> i,
                  to |-> IndexFrom(s, ")", i + Len("__execute_" \o n \o "("))]

(***************************************************************************)
(* parameterExtraction.js : the rule tables                                *)
(***************************************************************************)
KW(v, w) == [value |-> v, words |-> w]

\* PARAMETER_TYPES[t] ; found = FALSE when the type is not defined
PARAMETER_TYPES(t) ==
    CASE t = "AREA" ->
           [found |-> TRUE, values |-> <<"office", "room">>,
            synonyms |-> << KW("office", <<"oficina", "estudio", "despacho", "trabajo">>),
                            KW("room", <<"habitación", "habitacion", "cuarto", "dormitorio",
                                         "recámara", "recamara">>) >>,
            extractPattern |-> <<"office", "oficina", "estudio", "despacho", "trabajo", "room",
                                 "habitacion", "habitación", "cuarto", "dormitorio",
                                 "recamara", "recámara">>]
      [] t = "TOGGLE_STATE" ->
           [found |-> TRUE, values |-> <<"on", "off">>,
            synonyms |-> << KW("on", <<"encender", "encendido", "activar", "activado",
                                       "prender", "activa">>),
                            KW("off", <<"apagar", "apagado", "desactivar", "desactivado",
                                        "desactiva">>) >>,
            extractPattern |-> <<"on", "off", "encend", "prender", "prend", "activ", "apag",
                                 "desactiv">>]
      [] t = "DEVICE_TYPE" ->
           [found |-> TRUE, values |-> <<"light", "fan", "ac", "tv", "speaker">>,
            synonyms |-> << KW("light", <<"luz", "luces", "lámpara", "lampara", "iluminación",
                                          "iluminacion">>),
                            KW("fan", <<"ventilador", "abanico">>),
                            KW("ac", <<"aire", "aire acondicionado", "a/c", "clima",
                                       "climatizador">>),
                            KW("tv", <<"tele", "televisión", "television", "televisor">>),
                            KW("speaker", <<"altavoz", "parlante", "bocina">>) >>,
            extractPattern |-> <<>>]
      [] t = "SCENE" ->
           [found |-> TRUE, values |-> <<"movie", "reading", "sleep", "morning">>,
            synonyms |-> << KW("movie", <<"película", "pelicula", "cine", "netflix">>),
                            KW("reading", <<"lectura", "leer", "libro">>),
                            KW("sleep", <<"dormir", "noche", "descanso">>),
                            KW("morning", <<"mañana", "despertar", "amanecer">>) >>,
            extractPattern |-> <<>>]
      [] OTHER -> [found |-> FALSE, values |-> <<>>, synonyms |-> <<>>, extractPattern |-> <<>>]

\* one entry of parameterExtractionRules[webhook]; absent properties are
\* UNDEFINED, or the empty sequence for keywords / validValues / extractPattern
Rule(n, t, kw, vv, req, pat, grp, def) ==
    [name |-> n, type |-> t, keywords |-> kw, validValues |-> vv, required |-> req,
     extractPattern |-> pat, extractGroup |-> grp, defaultValue |-> def]

\* parameterExtractionRules[webhookName] || {} , in Object.entries order
parameterExtractionRules(webhookName) ==
    CASE webhookName = "area_control" ->
           << Rule("area", "AREA",
                   << KW("office", <<"office", "oficina", "despacho">>),
                      KW("room", <<"room", "habitación", "habitacion", "cuarto",
                                   "dormitorio">>) >>,
                   <<"office", "room">>, TRUE, <<>>, 1, UNDEFINED),
              Rule("turn", "TOGGLE_STATE",
                   << KW("on", <<"on", "encend", "prend", "activ", "prender", "encender",
                                 "activar">>),
                      KW("off", <<"off", "apag", "desactiv", "apagar", "desactivar">>) >>,
                   <<"on", "off">>, TRUE, <<>>, 1, UNDEFINED) >>
      [] webhookName = "device_control" ->
           << Rule("device", "DEVICE_TYPE", <<>>, <<>>, TRUE,
                   \* /(lámpara|lampara|luz|...|altavoz)/i
                   <<"lámpara", "lampara", "luz", "light", "bombilla", "foco", "tv",
                     "televisión", "television", "ventilador", "fan", "aire", "ac", "speaker",
                     "altavoz">>,
                   1, UNDEFINED),
              Rule("action", "TOGGLE_STATE",
                   << KW("on", <<"on", "encend", "prend", "activ">>),
                      KW("off", <<"off", "apag", "desactiv">>),
                      KW("toggle", <<"toggle", "altern", "cambiar">>) >>,
                   <<"on", "off", "toggle">>, TRUE, <<>>, 1, UNDEFINED) >>
      [] webhookName = "scene" ->
           << Rule("scene", "SCENE",
                   << KW("movie", <<"movie", "película", "pelicula", "cine", "netflix">>),
                      KW("reading", <<"reading", "lectura", "leer", "libro">>),
                      KW("sleep", <<"sleep", "dormir", "noche", "descanso">>),
                      KW("morning", <<"morning", "mañana", "despertar", "amanecer">>) >>,
                   <<"movie", "reading", "sleep", "morning">>, TRUE, <<>>, 1, UNDEFINED) >>
      [] webhookName = "send_notification" ->
           << Rule("message", UNDEFINED, <<>>, <<>>, TRUE,
                   \* the alternatives of /(mensaje|message|...|texto) ["']?([^"']+)["']?/i
                   <<"mensaje", "message", "send", "enviar", "diciendo", "saying", "text",
                     "texto">>,
                   2, UNDEFINED),
              Rule("to", UNDEFINED,
                   << KW("admin", <<"admin", "administrator", "administrador">>) >>,
                   <<>>, TRUE, <<>>, 1, "admin") >>
      [] webhookName = "sensor_report" ->
           << Rule("sensor", UNDEFINED,
                   << KW("temperature", <<"temperatura", "termometro", "termómetro", "calor",
                                          "frío", "frio">>),
                      KW("humidity", <<"humedad", "humidity">>),
                      KW("motion", <<"movimiento", "motion", "presencia", "presence">>),
                      KW("light", <<"light", "luz", "iluminacion", "iluminación", "brillo">>) >>,
                   <<"temperature", "humidity", "motion", "light", "all">>, TRUE, <<>>, 1,
                   UNDEFINED),
              Rule("location", UNDEFINED,
                   << KW("living", <<"living", "sala", "salón", "salon">>),
                      KW("bedroom", <<"bedroom", "dormitorio", "habitación", "habitacion",
                                      "cuarto">>),
                      KW("kitchen", <<"kitchen", "cocina">>),
                      KW("office", <<"office", "oficina", "despacho">>) >>,
                   <<>>, FALSE, <<>>, 1, "all") >>
      [] OTHER -> <<>>

Range(f) == {f[i] : i \in DOMAIN f}

(***************************************************************************)
(* Regular expressions of parameterExtraction.js                           *)
(***************************************************************************)
\* \b between index i-1 and index i
WordBoundary(s, i) == (CharAt(s, i - 1) \in WordChars) # (CharAt(s, i) \in WordChars)

\* the least element of a set of indices, 0 for the empty set
MinOrZero(S) == IF S = {} THEN 0 ELSE Min(S)

\* index of the first alternative of (a1|a2|...) that matches at i, 0 if none;
\* with wb the match must be followed by \b
AltAt(s, i, alts, wb) ==
    MinOrZero({k \in DOMAIN alts : /\ StartsAt(s, alts[k], i)
                                   /\ (wb => WordBoundary(s, i + Len(alts[k])))})

\* s.match(/(a1|a2|...)/i), or /\b(a1|a2|...)\b/i with wb, on s whose lower
\* case is low: the leftmost match, g1 the matched text of s
AltMatchLow(s, low, alts, wb) ==
    LET i == MinOrZero({j \in 1..Len(s) : /\ (wb => WordBoundary(low, j))
                                          /\ AltAt(low, j, alts, wb) # 0})
    IN  IF i = 0 THEN NoMatch
        ELSE [found |-> TRUE, g1 |-> Sub(s, i, i + Len(alts[AltAt(low, i, alts, wb)]) - 1)]

AltMatch(s, alts, wb) == AltMatchLow(s, toLowerCase(s), alts, wb)

\* /(a1|...) ["']?([^"']+)["']?/i tried at i with alternative a: the index at
\* which group 2 starts, 0 when the pattern does not match
MessageVia(s, low, i, a) ==
    LET b == IF CharAt(s, i + Len(a) + 1) \in Quotes THEN i + Len(a) + 2 ELSE i + Len(a) + 1
    IN  IF /\ StartsAt(low, a, i)
           /\ CharAt(s, i + Len(a)) = " "
           /\ SkipWhile(s, b, Quotes, FALSE) > b
        THEN b ELSE 0

\* the leftmost match of the pattern, through the first alternative that
\* matches there; g2 is group 2
MessageMatchLow(s, low, alts) ==
    LET At(j) == MinOrZero({k \in DOMAIN alts : MessageVia(s, low, j, alts[k]) # 0})
        i == MinOrZero({j \in 1..Len(s) : At(j) # 0})
        b == MessageVia(s, low, i, alts[At(i)])
    IN  IF i = 0 THEN NoMatch
        ELSE [found |-> TRUE, g2 |-> Sub(s, b, SkipWhile(s, b, Quotes, FALSE) - 1)]

MessageMatch(s, alts) == MessageMatchLow(s, toLowerCase(s), alts)

(***************************************************************************)
(* parameterExtraction.js : extraction                                     *)
(***************************************************************************)
\* synonym entry e is selected by the pattern match: an exact synonym, or a
\* synonym that is a prefix of / prefixed by the match
SynonymHit(e, matched) ==
    \E k \in DOMAIN e.words :
        \/ e.words[k] = matched
        \/ StartsAt(e.words[k], matched, 1)
        \/ StartsAt(matched, e.words[k], 1)

\* some word of keyword entry e occurs in the text
HasWord(e, t) == \E k \in DOMAIN e.words : Includes(t, e.words[k])

\* for (const [value, words] of Object.entries(table)) if (test) return value :
\* the value of the first entry among those that pass the test (hits, as
\* indices), NULL when none does
FirstValue(table, hits) == IF hits = {} THEN NULL ELSE table[Min(hits)].value

extractParameterByType(paramType, t) ==
    LET typeDefinition == PARAMETER_TYPES(paramType)
        match   == IF typeDefinition.extractPattern = <<>> THEN NoMatch
                   ELSE AltMatch(t, typeDefinition.extractPattern, TRUE)
        \* lines 181-196: the value for the text the extract pattern matched
        byMatch == IF ~match.found THEN NULL
                   ELSE IF toLowerCase(match.g1) \in Range(typeDefinition.values)
                   THEN toLowerCase(match.g1)
                   ELSE FirstValue(typeDefinition.synonyms,
                                   {k \in DOMAIN typeDefinition.synonyms :
                                       SynonymHit(typeDefinition.synonyms[k],
                                                  toLowerCase(match.g1))})
        \* lines 199-204: the first valid value the text includes
        byValue == MinOrZero({k \in DOMAIN typeDefinition.values :
                                 Includes(t, typeDefinition.values[k])})
    IN  IF ~typeDefinition.found THEN NULL
        ELSE IF byMatch # NULL THEN byMatch
        ELSE IF byValue # 0 THEN typeDefinition.values[byValue]
        \* lines 207-217: the first synonym entry with a word the text includes
        ELSE FirstValue(typeDefinition.synonyms,
                        {k \in DOMAIN typeDefinition.synonyms :
                            HasWord(typeDefinition.synonyms[k], t)})

\* lines 254-263: the first keyword entry with a word the message includes
ByKeywords(params, rule, userMessageLower) ==
    LET value == FirstValue(rule.keywords,
                            {k \in DOMAIN rule.keywords :
                                HasWord(rule.keywords[k], userMessageLower)})
    IN  IF value # NULL THEN Put(params, rule.name, value) ELSE params

\* lines 266-271: extraction by the pattern of the rule
ByPattern(params, rule, userMessage) ==
    LET match == IF rule.extractGroup = 2
                 THEN MessageMatch(userMessage, rule.extractPattern)
                 ELSE AltMatch(userMessage, rule.extractPattern, FALSE)
        group == IF ~match.found THEN UNDEFINED
                 ELSE IF rule.extractGroup = 2 THEN match.g2 ELSE match.g1
    IN  IF rule.extractPattern # <<>> /\ ~Truthy(Get(params, rule.name)) /\ Truthy(group)
        THEN Put(params, rule.name, Trim(group))
        ELSE params

\* lines 274-283: the text after the first message phrase the message includes
ByPhrase(params, rule, userMessage, userMessageLower, webhookName) ==
    LET messagePhrases == <<"diciendo que", "que diga", "con el mensaje", "enviando", "send">>
        k == MinOrZero({j \in DOMAIN messagePhrases :
                           Includes(userMessageLower, messagePhrases[j])})
    IN  IF /\ rule.name = "message" /\ webhookName = "send_notification"
           /\ ~Truthy(Get(params, rule.name))
           /\ k # 0
        THEN Put(params, rule.name,
                 Trim(From(userMessage, IndexFrom(userMessageLower, messagePhrases[k], 1)
                                        + Len(messagePhrases[k]))))
        ELSE params

\* lines 286-288: the default value
ByDefault(params, rule) ==
    IF ~Truthy(Get(params, rule.name)) /\ rule.defaultValue # UNDEFINED
    THEN Put(params, rule.name, rule.defaultValue)
    ELSE params

\* a loop body that clears a parameter that is already set
ExtractRuleClearing(extractedParams, rule, userMessage, userMessageLower, webhookName) ==
    IF Truthy(Get(extractedParams, rule.name)) THEN Put(extractedParams, rule.name, NULL)
    ELSE ByDefault(ByPhrase(ByPattern(ByKeywords(extractedParams, rule, userMessageLower),
                                      rule, userMessage),
                            rule, userMessage, userMessageLower, webhookName),
                   rule)

\* the body of the for loop of extractParametersFromMessage for one rule
ExtractRule(extractedParams, rule, userMessage, userMessageLower, webhookName) ==
    LET \* lines 244-251: extraction by the parameter type
        typeValue == IF rule.type # UNDEFINED /\ PARAMETER_TYPES(rule.type).found
                     THEN extractParameterByType(rule.type, userMessageLower)
                     ELSE NULL
    IN  \* if (extractedParams[paramName]) continue;
        IF Truthy(Get(extractedParams, rule.name)) THEN extractedParams
        ELSE IF Truthy(typeValue) THEN Put(extractedParams, rule.name, typeValue)
        ELSE ByDefault(ByPhrase(ByPattern(ByKeywords(extractedParams, rule, userMessageLower),
                                          rule, userMessage),
                                rule, userMessage, userMessageLower, webhookName),
                       rule)

RECURSIVE ExtractRules(_, _, _, _, _)
ExtractRules(extractedParams, rules, k, userMessage, webhookName) ==
    IF k > Len(rules) THEN extractedParams
    ELSE ExtractRules(ExtractRule(extractedParams, rules[k], userMessage,
                                  toLowerCase(userMessage), webhookName),
                      rules, k + 1, userMessage, webhookName)

extractParametersFromMessage(userMessage, webhookName, existingParams) ==
    ExtractRules(existingParams, parameterExtractionRules(webhookName), 1, userMessage,
                 webhookName)

(***************************************************************************)
(* parameterExtraction.js : validation                                     *)
(***************************************************************************)
\* a missing test that takes a null value for a supplied one
IsAbsent(rule, params) == rule.required /\ ~HasOwn(params, rule.name)

\* rule.required && (!params.hasOwnProperty(p) || params[p] === null || params[p] === undefined)
IsMissing(rule, params) ==
    rule.required /\ (~HasOwn(params, rule.name) \/ Get(params, rule.name) \in {NULL, UNDEFINED})

\* a validation that never looks at validValues
IsNeverInvalid(rule, params) == FALSE

\* the membership test of the validValues branch
IsInvalid(rule, params) ==
    /\ HasOwn(params, rule.name)
    /\ Len(rule.validValues) > 0
    /\ Get(params, rule.name) \notin Range(rule.validValues)

RECURSIVE ValidateRules(_, _, _, _)
ValidateRules(rules, k, params, result) ==
    IF k > Len(rules) THEN result
    ELSE LET rule == rules[k]
         IN  IF IsMissing(rule, params)
             THEN ValidateRules(rules, k + 1, params,
                      [result EXCEPT !.isValid = FALSE,
                                     !.missingParams = Append(@, [name |-> rule.name,
                                                    validValues |-> rule.validValues])])
             ELSE IF IsInvalid(rule, params)
             THEN ValidateRules(rules, k + 1, params,
                      [result EXCEPT !.isValid = FALSE,
                                     !.invalidParams = Append(@, [name |-> rule.name,
                                                    value |-> Get(params, rule.name),
                                                    validValues |-> rule.validValues])])
             ELSE ValidateRules(rules, k + 1, params, result)

\* a validation that accepts every parameter map
validateNothing(webhookName, params) ==
    [isValid |-> TRUE, missingParams |-> <<>>, invalidParams |-> <<>>]

validateParameters(webhookName, params) ==
    ValidateRules(parameterExtractionRules(webhookName), 1, params,
                  [isValid |-> TRUE, missingParams |-> <<>>, invalidParams |-> <<>>])

\* `${v}` for a string, null or undefined
TemplateString(v) == IF v = NULL THEN "null" ELSE IF v = UNDEFINED THEN "undefined" ELSE v

\* Array.prototype.join(', ')
RECURSIVE Join(_)
Join(seq) ==
    IF Len(seq) = 0 THEN ""
    ELSE IF Len(seq) = 1 THEN seq[1]
    ELSE seq[1] \o ", " \o Join(Tail(seq))

RECURSIVE MissingLines(_)
MissingLines(ps) ==
    IF ps = <<>> THEN ""
    ELSE (IF Len(ps[1].validValues) > 0
          THEN "- " \o ps[1].name \o ": debe ser uno de [" \o Join(ps[1].validValues) \o "]\n"
          ELSE "- " \o ps[1].name \o "\n")
         \o MissingLines(Tail(ps))

RECURSIVE InvalidLines(_)
InvalidLines(ps) ==
    IF ps = <<>> THEN ""
    ELSE "- " \o ps[1].name \o ": '" \o TemplateString(ps[1].value) \o "' no es válido. Valores permitidos: ["
         \o Join(ps[1].validValues) \o "]\n" \o InvalidLines(Tail(ps))

\* (the cross-mark emoji that opens the message is written [X])
generateErrorMessage(webhookName, validationResult) ==
    "[X] No se pudieron validar los parámetros para " \o webhookName \o ":\n\n"
    \o (IF Len(validationResult.missingParams) > 0
        THEN "Parámetros faltantes:\n" \o MissingLines(validationResult.missingParams)
        ELSE "")
    \o (IF Len(validationResult.invalidParams) > 0
        THEN "\nParámetros inválidos:\n" \o InvalidLines(validationResult.invalidParams)
        ELSE "")
    \o "\nPor favor intenta nuevamente con los parámetros correctos."

(***************************************************************************)
(* webhookHandler.js : the webhook registry                                *)
(***************************************************************************)
\* a registry is [webhooks, webhooksByExternalId]; webhooks maps an internal
\* name to the external ID stored with it, webhooksByExternalId an external
\* ID to an internal name
EmptyRegistry == [webhooks |-> EmptyMap, webhooksByExternalId |-> EmptyMap]

\* register(name, handler, description, externalId) ; envId is the value of
\* getExternalIdFromEnv(name)
register(reg, name, externalId, envId) ==
    LET effectiveExternalId == OrElse(externalId, OrElse(envId, name))
    IN  [webhooks |-> Put(reg.webhooks, name, effectiveExternalId),
         webhooksByExternalId |-> Put(reg.webhooksByExternalId, effectiveExternalId, name)]

NotFound == [found |-> FALSE, name |-> NULL, externalId |-> NULL]

findWebhook(reg, idOrName) ==
    IF ~Truthy(idOrName) THEN NotFound
    ELSE IF HasOwn(reg.webhooks, idOrName)
    THEN [found |-> TRUE, name |-> idOrName, externalId |-> reg.webhooks[idOrName]]
    ELSE LET name == Get(reg.webhooksByExternalId, idOrName)
         IN  IF Truthy(name)
             THEN [found |-> TRUE, name |-> name, externalId |-> Get(reg.webhooks, name)]
             ELSE NotFound

\* the webhook modules that webhooks/index.js loads; each passes
\* process.env.<NAME>_WEBHOOK_ID || null as its external ID
WebhookModules == <<"area_control", "send_notification", "device_control", "sensor_report">>

RECURSIVE LoadWebhooks(_, _, _)
LoadWebhooks(reg, k, env) ==
    IF k > Len(WebhookModules) THEN reg
    ELSE LoadWebhooks(register(reg, WebhookModules[k], OrElse(Get(env, WebhookModules[k]), NULL),
                               Get(env, WebhookModules[k])),
                      k + 1, env)

\* the settings of the <NAME>_WEBHOOK_ID variables that the model starts from
WebhookEnvs == { EmptyMap, [area_control |-> "luces"] }

\* command prefixes that commands/index.js registers at start-up
CommandModules == {"!ia", "!clima", "!settings", "!help"}

(***************************************************************************)
(* What the two model backends can answer                                  *)
(***************************************************************************)
\* the text a model sends before a function call
Prefixes == {"", "Apagando las luces. "}

\* the calls a model may ask for
ModelCalls ==
    { CommandCall("!clima", "Madrid"), CommandCall("!help", ""), CommandCall("!nope", "x"),
      CommandCall("!settings", "funciones off"), CommandCall("!settings", "funciones on"),
      CommandCall("!ia", ""), CommandCall("!ia", "turn off the office lights"),
      WebhookCall("area_control", [area |-> "office", turn |-> "off"]),
      WebhookCall("area_control", EmptyMap),
      WebhookCall("area_control", [area |-> "office", turn |-> "maybe"]),
      WebhookCall("luces", [area |-> "room", turn |-> "on"]),
      WebhookCall("nope", [area |-> "room"]),
      WebhookCall("send_notification", [message |-> "I'll be late", to |-> "Luis"]),
      WebhookCall("sensor_report", [sensor |-> "all"]) }

\* the order in which a model writes the keys of a payload
KeyOrder == <<"area", "turn", "device", "action", "scene", "message", "to", "sensor", "location">>

\* the members of a payload as JSON text, the way the system prompt shows them
RECURSIVE StringifyFrom(_, _, _)
StringifyFrom(m, k, first) ==
    IF k > Len(KeyOrder) THEN ""
    ELSE IF KeyOrder[k] \in DOMAIN m
    THEN (IF first THEN "" ELSE ", ")
         \o "\"" \o KeyOrder[k] \o "\": "
         \o (IF m[KeyOrder[k]] = NULL THEN "null" ELSE "\"" \o m[KeyOrder[k]] \o "\"")
         \o StringifyFrom(m, k + 1, FALSE)
    ELSE StringifyFrom(m, k + 1, first)

\* the marker of the system prompt for a call:
\* __execute_command("!command", "arguments") / __execute_webhook("webhook_name", {data})
Marker(call) ==
    IF call.type = "command"
    THEN "__execute_command(\"" \o call.command \o "\", \"" \o call.args \o "\")"
    ELSE IF call.type = "webhook"
    THEN "__execute_webhook(\"" \o call.webhook \o "\", {"
         \o StringifyFrom(call.data, 1, TRUE) \o "})"
    ELSE "__execute_intent(\"" \o call.intent \o "\", 0.9)"

\* markers a model writes that are not in the documented form
OddMarkers ==
    { "__execute_command(\"!clima\")",
      "__execute_command(!clima)",
      "__execute_webhook('area_control', {area: 'room', turn: 'on'})",
      "__execute_webhook(\"area_control\", {area: office})",
      "__execute_webhook(\"area_control\")" }

\* tool_calls[0].function of an OpenAI answer, with its arguments already
\* read by JSON.parse; malformed arguments make JSON.parse throw.  The data of
\* execute_webhook is given after  functionArgs.data || {} .
NoTool == [name |-> "none"]

MalformedTool == [name |-> "execute_command", malformed |-> TRUE]

ToolOf(call) ==
    IF call.type = "command"
    THEN [name |-> "execute_command", malformed |-> FALSE,
          arguments |-> [command |-> call.command, args |-> call.args]]
    ELSE IF call.type = "webhook"
    THEN [name |-> "execute_webhook", malformed |-> FALSE,
          arguments |-> [webhook |-> call.webhook, data |-> call.data]]
    ELSE [name |-> "detect_intent", malformed |-> FALSE, arguments |-> [intent |-> call.intent]]

\* an answer of a backend: a thrown error (network, timeout, HTTP status), or
\* a message with its text and, from OpenAI only, possibly a tool call
Threw == [threw |-> TRUE]

Answer(content, tool) == [threw |-> FALSE, content |-> content, tool |-> tool]

\* what a classifier may answer
IntentAnswers(provider) ==
    LET IntentNames == {"CHAT", "COMMAND", "WEBHOOK", "SHOPPING", "webhook"}
    IN
    {Threw}
    \cup {Answer(t, NoTool) : t \in {"", "COMMAND", "__execute_intent(WEBHOOK)",
                                     "Intent: __execute_intent('COMMAND') "}}
    \cup {Answer(Marker(IntentCall(i)), NoTool) : i \in IntentNames}
    \cup (IF provider = "openai"
          THEN {Answer(NULL, ToolOf(IntentCall(i))) : i \in IntentNames}
               \cup {Answer(NULL, MalformedTool)}
          ELSE {})

ChatAnswers == {Threw} \cup {Answer(t, NoTool) : t \in {"", "Hola!", Marker(CommandCall("!clima", "Madrid"))}}

\* at the last modelled nesting level the model does not ask for !ia again
AllowedCalls(last) ==
    {c \in ModelCalls :
        ~(last /\ c.type = "command" /\ c.command = "!ia" /\ c.args # "")}

FunctionAnswers(provider, last) ==
    {Threw}
    \cup {Answer(p \o m, NoTool) : p \in Prefixes,
              m \in {""} \cup OddMarkers \cup {Marker(c) : c \in AllowedCalls(last)}}
    \cup (IF provider = "openai"
          THEN {Answer(p, ToolOf(c)) : p \in Prefixes \cup {NULL}, c \in AllowedCalls(last)}
               \cup {Answer(NULL, MalformedTool), Answer("", ToolOf(IntentCall("CHAT"))),
                     Answer(NULL, [name |-> "execute_command", malformed |-> FALSE,
                                   arguments |-> [command |-> "!help", args |-> UNDEFINED]])}
          ELSE {})

(***************************************************************************)
(* callOpenAI / callOllama / callAIModel                                   *)
(***************************************************************************)
\* the result of a backend call: threw, or {text, functionCall}
ModelError == [threw |-> TRUE, text |-> "", functionCall |-> NoCall]

ModelResult(t, fc) == [threw |-> FALSE, text |-> t, functionCall |-> fc]

\* callOpenAI, from the answer of the API on.  extractParametersFromMessage is
\* not a name of the chatbot module (only parameterExtraction.extractParametersFromMessage
\* is), so evaluating line 1656 throws a ReferenceError, which line 1681 rethrows.
callOpenAI(reg, answer, userMessage) ==
    IF answer.threw THEN ModelError
    ELSE LET text == OrElse(answer.content, "")
             tool == answer.tool
         IN  IF tool.name = "none" THEN ModelResult(text, NoCall)
             ELSE IF tool.malformed THEN ModelError
             ELSE LET functionArgs == tool.arguments
                  IN  IF tool.name = "execute_command"
                      THEN ModelResult(text, CommandCall(functionArgs.command,
                                                         OrElse(functionArgs.args, "")))
                      ELSE IF tool.name = "execute_webhook"
                      THEN LET webhookInfo == findWebhook(reg, functionArgs.webhook)
                               webhookData == functionArgs.data
                           IN  \* Object.keys(webhookData).length === 0
                               IF webhookInfo.found /\ DOMAIN webhookData = {}
                               THEN ModelError
                               ELSE ModelResult(text, WebhookCall(functionArgs.webhook, webhookData))
                      ELSE IF tool.name = "detect_intent"
                      THEN ModelResult(text, IntentCall(functionArgs.intent))
                      ELSE ModelResult(text, NoCall)

callOllama(answer, purpose) ==
    IF answer.threw THEN ModelError
    ELSE LET responseText == OrElse(answer.content, "No recibí respuesta clara del modelo de IA.")
             functionCallMatch == FunctionCallRegex(responseText, {"command", "webhook", "intent"})
         IN  IF purpose \in {"function", "intent"} /\ functionCallMatch.found
             THEN ModelResult(responseText,
                      parseFunctionCallText(Sub(responseText, functionCallMatch.from,
                                                functionCallMatch.to)))
             ELSE ModelResult(responseText, NoCall)

\* provider is the effective one: "openai" only when the package is loaded and
\* OPENAI_API_KEY is set
callAIModel(provider, reg, answer, userMessage, purpose) ==
    IF provider = "openai" THEN callOpenAI(reg, answer, userMessage)
    ELSE callOllama(answer, purpose)

(***************************************************************************)
(* Bounds                                                                  *)
(***************************************************************************)
\* how many router runs one message may nest through the !ia command
MaxDepth == 2

(***************************************************************************)
(* State                                                                   *)
(***************************************************************************)
VARIABLES
    config,                \* CONFIG: the effective provider of each purpose
    commands,              \* commandHandler.commands (the registered prefixes)
    webhooks,              \* webhookHandler.webhooks
    webhooksByExternalId,  \* webhookHandler.webhooksByExternalId
    enableFunctionCalls,   \* settings.enableFunctionCalls
    pc,                    \* where the processing of the current message stands
    text,                  \* the text of the current router run
    depth,                 \* router runs started for the current message
    detectedIntent,        \* the bucket
    aiResponse,            \* aiResponse / responseToUser
    functionCall,          \* functionCall
    webhookInfo,           \* webhookInfo of the webhook branch
    result,                \* result of handleWebhook
    events,                \* what the current router run did, in order
    handlerCalls,          \* handler invocations caused by the current message
    fin,                   \* input of a function under test
    fout,                  \* its outputs
    fpc                    \* which outputs have been computed

routerVars == <<pc, text, depth, detectedIntent, aiResponse, functionCall, webhookInfo,
                result, events, handlerCalls>>

setupVars == <<config, commands, webhooks, webhooksByExternalId>>

harnessVars == <<fin, fout, fpc>>

vars == <<config, commands, webhooks, webhooksByExternalId, enableFunctionCalls,
          pc, text, depth, detectedIntent, aiResponse, functionCall, webhookInfo,
          result, events, handlerCalls, fin, fout, fpc>>

Registry == [webhooks |-> webhooks, webhooksByExternalId |-> webhooksByExternalId]

\* INTENT_AI_PROVIDER, CHAT_AI_PROVIDER and FUNCTION_AI_PROVIDER of the deployments considered
Configs ==
    { [intent |-> "ollama", chat |-> "ollama", function |-> "ollama"],
      [intent |-> "openai", chat |-> "openai", function |-> "openai"],
      [intent |-> "ollama", chat |-> "openai", function |-> "openai"] }

\* texts a user sends
UserTexts == {"", "turn off the office lights", "tell me a joke"}

\* the state of a router that is not processing a message
RouterIdle ==
    /\ pc = "idle" /\ text = "" /\ depth = 0 /\ detectedIntent = "CHAT"
    /\ aiResponse = NULL /\ functionCall = NoCall /\ webhookInfo = NotFound
    /\ result = NULL /\ events = <<>> /\ handlerCalls = 0

\* the bot after start-up: commands and webhooks loaded, settings read from
\* ENABLE_FUNCTION_CALLS
Setup ==
    /\ config \in Configs
    /\ commands = CommandModules
    /\ \E env \in WebhookEnvs :
          LET reg == LoadWebhooks(EmptyRegistry, 1, env)
          IN  webhooks = reg.webhooks /\ webhooksByExternalId = reg.webhooksByExternalId
    /\ enableFunctionCalls \in BOOLEAN

Init == Setup /\ RouterIdle /\ fin = NULL /\ fout = NULL /\ fpc = "off"

(***************************************************************************)
(* Events of a router run: model calls, replies, log entries and handler   *)
(* invocations, in their order                                             *)
(***************************************************************************)
ReplyEvent(kind, body, ok) == [e |-> "reply", kind |-> kind, body |-> body, ok |-> ok]

\* await msg.reply(body): the reply is sent and control goes on, or the
\* transport rejects and control passes to the catch block of the router
Reply(kind, body, next) ==
    \E ok \in BOOLEAN :
        /\ events' = Append(events, ReplyEvent(kind, body, ok))
        /\ pc' = IF ok THEN next ELSE "catch"

(***************************************************************************)
(* handleChatbotMessage                                                    *)
(***************************************************************************)
\* if (!text || typeof text !== 'string') return;  otherwise the run starts
ReceiveMessage ==
    /\ pc = "idle"
    /\ \E t \in UserTexts :
          /\ text' = t
          /\ pc' = IF Truthy(t) THEN "classify" ELSE "done"
    /\ depth' = 1
    /\ UNCHANGED <<detectedIntent, aiResponse, functionCall, webhookInfo, result, events,
                   handlerCalls>>
    /\ UNCHANGED <<setupVars, enableFunctionCalls, harnessVars>>

\* intentResponse.text.match(/__execute_intent\(['"]([A-Z]+)['"]/) : group 1,
\* NULL without a match
IntentTextMatch(t) ==
    LET n == Len("__execute_intent(")
        Ok(i) == /\ StartsAt(t, "__execute_intent(", i)
                 /\ CharAt(t, i + n) \in Quotes
                 /\ SkipWhile(t, i + n + 1, Chars(UpperLetters), TRUE) > i + n + 1
                 /\ CharAt(t, SkipWhile(t, i + n + 1, Chars(UpperLetters), TRUE)) \in Quotes
        S == {i \in 1..Len(t) : Ok(i)}
    IN  IF S = {} THEN NULL
        ELSE Sub(t, Min(S) + n + 1, SkipWhile(t, Min(S) + n + 1, Chars(UpperLetters), TRUE) - 1)

\* a classification step that routes a failed classification to COMMAND
BucketWithoutDefault(intentResponse) ==
    IF intentResponse.threw THEN "COMMAND"
    ELSE IF Truthy(Get(intentResponse.functionCall, "intent"))
    THEN intentResponse.functionCall.intent
    ELSE "CHAT"

\* lines 1903-1923: the bucket for the result of the classification call
BucketOf(intentResponse) ==
    IF intentResponse.threw THEN "CHAT"
    ELSE IF Truthy(Get(intentResponse.functionCall, "intent"))
    THEN intentResponse.functionCall.intent
    ELSE LET match == IntentTextMatch(intentResponse.text)
         IN  IF match # NULL /\ match \in {"CHAT", "COMMAND", "WEBHOOK"} THEN match ELSE "CHAT"

\* Step 1: detect the intent
DetectIntent ==
    /\ pc = "classify"
    /\ \E answer \in IntentAnswers(config.intent) :
          LET intentResponse == callAIModel(config.intent, Registry, answer, text, "intent")
          IN  /\ detectedIntent' = BucketOf(intentResponse)
              /\ events' = Append(events, [e |-> "model", purpose |-> "intent", threw |-> intentResponse.threw])
    /\ pc' = "generate"
    /\ UNCHANGED <<text, depth, aiResponse, functionCall, webhookInfo, result, handlerCalls>>
    /\ UNCHANGED <<setupVars, enableFunctionCalls, harnessVars>>

\* lines 2052-2076: the text and the function call taken from the answer of
\* the function model
FunctionResponse(functionResponse) ==
    LET match == FunctionCallRegex(functionResponse.text, {"command", "webhook"})
        removed == Sub(functionResponse.text, 1, match.from - 1)
                   \o From(functionResponse.text, match.to + 1)
    IN  IF functionResponse.functionCall # NoCall
        THEN [aiResponse |-> functionResponse.text, functionCall |-> functionResponse.functionCall]
        ELSE IF match.found
        THEN [aiResponse |-> Trim(CollapseSpaces(Trim(removed))),
              functionCall |-> parseFunctionCallText(Sub(functionResponse.text, match.from, match.to))]
        ELSE [aiResponse |-> functionResponse.text, functionCall |-> NoCall]

\* the provider and the purpose of the generation call (lines 1952-1969)
GenerationProvider == IF detectedIntent \in {"COMMAND", "WEBHOOK"} THEN config.function ELSE config.chat

GenerationPurpose ==
    IF detectedIntent = "COMMAND" THEN "command"
    ELSE IF detectedIntent = "WEBHOOK" THEN "webhook"
    ELSE "chat"

\* a chat step that looks for a function call in the answer, as the step of
\* the other buckets does
GenerateChatParsing ==
    /\ pc = "generate"
    /\ detectedIntent = "CHAT"
    /\ \E answer \in ChatAnswers :
          LET chatResponse == callAIModel(config.chat, Registry, answer, text, "chat")
          IN  /\ aiResponse' = IF chatResponse.threw
                               THEN "Lo siento, tuve un problema generando una respuesta. Por favor intenta de nuevo."
                               ELSE FunctionResponse(chatResponse).aiResponse
              /\ functionCall' = IF chatResponse.threw THEN NoCall
                                 ELSE FunctionResponse(chatResponse).functionCall
              /\ events' = Append(events, [e |-> "model", purpose |-> "chat", threw |-> chatResponse.threw,
                                           text |-> chatResponse.text])
    /\ pc' = "dispatch"
    /\ UNCHANGED <<text, depth, detectedIntent, webhookInfo, result, handlerCalls>>
    /\ UNCHANGED <<setupVars, enableFunctionCalls, harnessVars>>

\* a chat step that calls the model once more when its call threw
GenerateChatRetrying ==
    /\ pc = "generate"
    /\ detectedIntent = "CHAT"
    /\ \E answer \in ChatAnswers :
          LET chatResponse == callAIModel(config.chat, Registry, answer, text, "chat")
              first == \A i \in DOMAIN events : events[i].purpose # "chat"
          IN  /\ aiResponse' = IF chatResponse.threw
                               THEN "Lo siento, tuve un problema generando una respuesta. Por favor intenta de nuevo."
                               ELSE chatResponse.text
              /\ events' = Append(events, [e |-> "model", purpose |-> "chat", threw |-> chatResponse.threw,
                                         text |-> chatResponse.text])
              /\ pc' = IF chatResponse.threw /\ first THEN "generate" ELSE "dispatch"
    /\ UNCHANGED <<text, depth, detectedIntent, functionCall, webhookInfo, result, handlerCalls>>
    /\ UNCHANGED <<setupVars, enableFunctionCalls, harnessVars>>

\* Step 2 for the CHAT bucket (lines 2017-2037)
GenerateChat ==
    /\ pc = "generate"
    /\ detectedIntent = "CHAT"
    /\ \E answer \in ChatAnswers :
          LET chatResponse == callAIModel(config.chat, Registry, answer, text, "chat")
          IN  /\ aiResponse' = IF chatResponse.threw
                               THEN "Lo siento, tuve un problema generando una respuesta. Por favor intenta de nuevo."
                               ELSE chatResponse.text
              /\ events' = Append(events, [e |-> "model", purpose |-> "chat", threw |-> chatResponse.threw,
                                         text |-> chatResponse.text])
    /\ pc' = "dispatch"
    /\ UNCHANGED <<text, depth, detectedIntent, functionCall, webhookInfo, result, handlerCalls>>
    /\ UNCHANGED <<setupVars, enableFunctionCalls, harnessVars>>

\* Step 2 for any other bucket (lines 2038-2081)
GenerateFunction ==
    /\ pc = "generate"
    /\ detectedIntent # "CHAT"
    /\ \E answer \in FunctionAnswers(GenerationProvider, depth >= MaxDepth) :
          LET functionResponse == callAIModel(GenerationProvider, Registry, answer, text,
                                              GenerationPurpose)
          IN  /\ aiResponse' = IF functionResponse.threw
                               THEN "Lo siento, tuve un problema procesando tu petición. Por favor intenta de nuevo."
                               ELSE FunctionResponse(functionResponse).aiResponse
              /\ functionCall' = IF functionResponse.threw THEN NoCall
                                 ELSE FunctionResponse(functionResponse).functionCall
              /\ events' = Append(events, [e |-> "model", purpose |-> "function", threw |-> functionResponse.threw,
                                         text |-> functionResponse.text])
    /\ pc' = "dispatch"
    /\ UNCHANGED <<text, depth, detectedIntent, webhookInfo, result, handlerCalls>>
    /\ UNCHANGED <<setupVars, enableFunctionCalls, harnessVars>>

\* settings && settings.enableFunctionCalls === true
areFunctionCallsEnabled == enableFunctionCalls = TRUE

\* functionCall.command && commandHandler.commands.has(functionCall.command)
IsRegisteredCommand(fc) == Truthy(Get(fc, "command")) /\ fc.command \in commands

\* lines 2083-2153, up to the first await: where the run goes.  With function
\* calls disabled and a function call present, line 2092 assigns to the
\* constant responseToUser, which throws a TypeError.
Dispatch ==
    /\ pc = "dispatch"
    /\ IF ~areFunctionCallsEnabled /\ functionCall # NoCall
       THEN pc' = "catch" /\ UNCHANGED <<functionCall, webhookInfo>>
       ELSE IF functionCall # NoCall /\ IsRegisteredCommand(functionCall)
       THEN pc' = "command_log" /\ UNCHANGED <<functionCall, webhookInfo>>
       ELSE IF functionCall # NoCall /\ Truthy(Get(functionCall, "webhook"))
       THEN LET info == findWebhook(Registry, functionCall.webhook)
                \* lines 2136-2143: the parameters handed to validation and to the handler
                data == extractParametersFromMessage(text, info.name, functionCall.data)
            IN  /\ webhookInfo' = info
                /\ IF ~info.found
                   THEN pc' = "reply_not_found" /\ UNCHANGED functionCall
                   ELSE /\ functionCall' = [functionCall EXCEPT !.data = data]
                        /\ pc' = IF validateParameters(info.name, data).isValid
                                 THEN "webhook_log" ELSE "reply_invalid"
       ELSE pc' = "reply_final" /\ UNCHANGED <<functionCall, webhookInfo>>
    /\ UNCHANGED <<text, depth, detectedIntent, aiResponse, result, events, handlerCalls>>
    /\ UNCHANGED <<setupVars, enableFunctionCalls, harnessVars>>

\* a logFunctionCall that lets the error of mkdir / appendFile reach its caller
logFunctionCallThrowing(type, call, next) ==
    \E ok \in BOOLEAN :
        /\ events' = Append(events, [e |-> "log", type |-> type, call |-> call,
                                     userMessage |-> text, ok |-> ok,
                                     timestamp |-> "new Date().toISOString()"])
        /\ pc' = IF ok THEN next ELSE "catch"

\* logFunctionCall: the entry is appended, or mkdir / appendFile fail and the
\* error is only printed; the run goes on either way
logFunctionCall(type, call, next) ==
    /\ \E ok \in BOOLEAN : events' = Append(events, [e |-> "log", type |-> type, call |-> call,
                                                      userMessage |-> text, ok |-> ok,
                                                      timestamp |-> "new Date().toISOString()"])
    /\ pc' = next

\* lines 2106-2111
LogCommand ==
    /\ pc = "command_log"
    /\ logFunctionCall("command", functionCall, "command_reply")
    /\ UNCHANGED <<text, depth, detectedIntent, aiResponse, functionCall, webhookInfo, result,
                   handlerCalls>>
    /\ UNCHANGED <<setupVars, enableFunctionCalls, harnessVars>>

\* lines 2113-2116
ReplyBeforeCommand ==
    /\ pc = "command_reply"
    /\ IF Truthy(aiResponse)
       THEN Reply("text", aiResponse, "command_invoke")
       ELSE pc' = "command_invoke" /\ UNCHANGED events
    /\ UNCHANGED <<text, depth, detectedIntent, aiResponse, functionCall, webhookInfo, result,
                   handlerCalls>>
    /\ UNCHANGED <<setupVars, enableFunctionCalls, harnessVars>>

\* line 2119: await handler(msg, functionCall.args)
InvokeCommand ==
    /\ pc = "command_invoke"
    /\ events' = Append(events, [e |-> "handler", kind |-> "command",
                                 name |-> functionCall.command, arg |-> functionCall.args])
    /\ handlerCalls' = handlerCalls + 1
    /\ pc' = IF functionCall.command = "!ia" THEN "ia"
             ELSE IF functionCall.command = "!settings" THEN "settings"
             ELSE "command_running"
    /\ UNCHANGED <<text, depth, detectedIntent, aiResponse, functionCall, webhookInfo, result>>
    /\ UNCHANGED <<setupVars, enableFunctionCalls, harnessVars>>

\* handleSettingsCommand / displayCurrentSettings / handleFunctionCallSetting.
\* The two helpers are returned without await, so a rejected reply of theirs
\* is not caught in handleSettingsCommand and reaches the router.
SettingsCommand ==
    /\ pc = "settings"
    /\ LET args == functionCall.args
           setting == toLowerCase(Word(args, 1))
           value == IF Word(args, 2) = "" THEN NULL ELSE toLowerCase(Word(args, 2))
       IN  IF Trim(args) = ""
           THEN Reply("handler", "*Configuración actual:*", "done") /\ UNCHANGED enableFunctionCalls
           ELSE IF setting \in {"funciones", "func", "commands"}
           THEN IF ~Truthy(value) \/ value \notin {"on", "off"}
                THEN /\ Reply("handler", "[!] Valor no válido.", "done")
                     /\ UNCHANGED enableFunctionCalls
                ELSE /\ enableFunctionCalls' = (value = "on")
                     /\ Reply("handler", "[OK] Ejecución automática de comandos: "
                                       \o (IF value = "on" THEN "Activada" ELSE "Desactivada"),
                            "done")
           ELSE /\ UNCHANGED enableFunctionCalls
                /\ \E ok \in BOOLEAN, ok2 \in BOOLEAN :
                      LET first == ReplyEvent("handler", "[!] Configuración no reconocida: " \o setting, ok)
                          second2 == ReplyEvent("handler", "Error al procesar la configuración", ok2)
                      IN  IF ok THEN events' = Append(events, first) /\ pc' = "done"
                          ELSE /\ events' = events \o <<first, second2>>
                               /\ pc' = IF ok2 THEN "done" ELSE "catch"
    /\ UNCHANGED <<text, depth, detectedIntent, aiResponse, functionCall, webhookInfo, result,
                   handlerCalls>>
    /\ UNCHANGED <<setupVars, harnessVars>>

\* handleAICommand with an empty prompt: it asks for a prompt; when that reply
\* is rejected its catch block replies with the error
AICommandEmpty ==
    /\ pc = "ia"
    /\ ~Truthy(functionCall.args) \/ Trim(functionCall.args) = ""
    /\ \E ok \in BOOLEAN, ok2 \in BOOLEAN :
          LET first == ReplyEvent("handler", "Por favor, enviá un mensaje después del comando !ia", ok)
              second == ReplyEvent("handler", "Error al procesar solicitud de IA", ok2)
          IN  IF ok THEN events' = Append(events, first) /\ pc' = "done"
              ELSE /\ events' = events \o <<first, second>>
                   /\ pc' = IF ok2 THEN "done" ELSE "catch"
    /\ UNCHANGED <<text, depth, detectedIntent, aiResponse, functionCall, webhookInfo, result,
                   handlerCalls>>
    /\ UNCHANGED <<setupVars, enableFunctionCalls, harnessVars>>

\* handleAICommand with a prompt: await chatbotHandler.handleChatbotMessage(msg, prompt),
\* a new router run for the same message
AICommandDelegate ==
    /\ pc = "ia"
    /\ Truthy(functionCall.args) /\ Trim(functionCall.args) # ""
    /\ depth < MaxDepth
    /\ text' = functionCall.args
    /\ depth' = depth + 1
    /\ pc' = "classify"
    /\ detectedIntent' = "CHAT"
    /\ aiResponse' = NULL
    /\ functionCall' = NoCall
    /\ webhookInfo' = NotFound
    /\ result' = NULL
    /\ events' = <<>>
    /\ UNCHANGED handlerCalls
    /\ UNCHANGED <<setupVars, enableFunctionCalls, harnessVars>>

\* any other command handler: it returns, or its promise rejects with an
\* error whose message is recorded as the run saw it thrown (line 2204: the
\* catch block receives the error)
RunCommand ==
    /\ pc = "command_running"
    /\ \E outcome \in {"returns", "throws"} :
          IF outcome = "returns"
          THEN pc' = "done" /\ UNCHANGED events
          ELSE /\ pc' = "catch"
               /\ events' = Append(events, [e |-> "throw", message |-> "command failed"])
    /\ UNCHANGED <<text, depth, detectedIntent, aiResponse, functionCall, webhookInfo, result,
                   handlerCalls>>
    /\ UNCHANGED <<setupVars, enableFunctionCalls, harnessVars>>

\* a webhook branch that reports nothing when the webhook is unknown
NoNotFoundReply ==
    /\ pc = "reply_not_found"
    /\ pc' = "reply_final"
    /\ UNCHANGED <<text, depth, detectedIntent, aiResponse, functionCall, webhookInfo, result,
                   events, handlerCalls>>
    /\ UNCHANGED <<setupVars, enableFunctionCalls, harnessVars>>

\* line 2131
ReplyNotFound ==
    /\ pc = "reply_not_found"
    /\ Reply("not_found", "[X] No encontré el webhook \"" \o functionCall.webhook
                          \o "\". Por favor verifica el nombre.", "done")
    /\ UNCHANGED <<text, depth, detectedIntent, aiResponse, functionCall, webhookInfo, result,
                   handlerCalls>>
    /\ UNCHANGED <<setupVars, enableFunctionCalls, harnessVars>>

\* lines 2145-2153
ReplyInvalid ==
    /\ pc = "reply_invalid"
    /\ Reply("invalid",
             generateErrorMessage(webhookInfo.name,
                                  validateParameters(webhookInfo.name, functionCall.data)),
             "done")
    /\ UNCHANGED <<text, depth, detectedIntent, aiResponse, functionCall, webhookInfo, result,
                   handlerCalls>>
    /\ UNCHANGED <<setupVars, enableFunctionCalls, harnessVars>>

\* a webhook branch that keeps no record of the call
NoLogWebhook ==
    /\ pc = "webhook_log"
    /\ pc' = "webhook_reply"
    /\ UNCHANGED <<text, depth, detectedIntent, aiResponse, functionCall, webhookInfo, result,
                   events, handlerCalls>>
    /\ UNCHANGED <<setupVars, enableFunctionCalls, harnessVars>>

\* lines 2158-2164
LogWebhook ==
    /\ pc = "webhook_log"
    /\ logFunctionCall("webhook",
                       [webhook |-> webhookInfo.name, externalId |-> webhookInfo.externalId,
                        data |-> functionCall.data],
                       "webhook_reply")
    /\ UNCHANGED <<text, depth, detectedIntent, aiResponse, functionCall, webhookInfo, result,
                   handlerCalls>>
    /\ UNCHANGED <<setupVars, enableFunctionCalls, harnessVars>>

\* a webhook branch that sends no explanatory text
NoReplyBeforeWebhook ==
    /\ pc = "webhook_reply"
    /\ pc' = "webhook_invoke"
    /\ UNCHANGED <<text, depth, detectedIntent, aiResponse, functionCall, webhookInfo, result,
                   events, handlerCalls>>
    /\ UNCHANGED <<setupVars, enableFunctionCalls, harnessVars>>

\* lines 2169-2172
ReplyBeforeWebhook ==
    /\ pc = "webhook_reply"
    /\ IF Truthy(aiResponse)
       THEN Reply("text", aiResponse, "webhook_invoke")
       ELSE pc' = "webhook_invoke" /\ UNCHANGED events
    /\ UNCHANGED <<text, depth, detectedIntent, aiResponse, functionCall, webhookInfo, result,
                   handlerCalls>>
    /\ UNCHANGED <<setupVars, enableFunctionCalls, harnessVars>>

\* handleWebhook(idOrName, data): the result for an outcome of the handler,
\* which returns a result (that may itself say success: false) or throws
handleWebhook(reg, idOrName, outcome) ==
    LET info == findWebhook(reg, idOrName)
    IN  IF ~info.found
        THEN [success |-> FALSE, error |-> "Webhook not found",
              message |-> "No handler registered for webhook: " \o idOrName,
              result |-> UNDEFINED]
        ELSE IF outcome = "throws"
        THEN [success |-> FALSE, error |-> "Webhook handler error: failed",
              message |-> "Error processing webhook " \o info.name, result |-> UNDEFINED]
        ELSE [success |-> TRUE, error |-> UNDEFINED, message |-> UNDEFINED,
              result |-> [success |-> outcome = "success"]]

\* line 2175: await webhookHandler.handleWebhook(webhookInfo.name, functionCall.data)
InvokeWebhook ==
    /\ pc = "webhook_invoke"
    /\ IF findWebhook(Registry, webhookInfo.name).found
       THEN /\ events' = Append(events, [e |-> "handler", kind |-> "webhook",
                                         name |-> webhookInfo.name, arg |-> functionCall.data])
            /\ handlerCalls' = handlerCalls + 1
            /\ \E outcome \in {"success", "failure", "throws"} :
                  result' = handleWebhook(Registry, webhookInfo.name, outcome)
       ELSE /\ result' = handleWebhook(Registry, webhookInfo.name, "success")
            /\ UNCHANGED <<events, handlerCalls>>
    /\ pc' = "webhook_outcome"
    /\ UNCHANGED <<text, depth, detectedIntent, aiResponse, functionCall, webhookInfo>>
    /\ UNCHANGED <<setupVars, enableFunctionCalls, harnessVars>>

\* lines 2177-2194: the text of the reply on the outcome
OutcomeMessage(fc, res) ==
    IF Truthy(res.error)
    THEN "[X] No pude completar la acción: " \o res.message
    ELSE IF fc.webhook = "area_control"
    THEN "[OK] He " \o (IF OrElse(Get(fc.data, "turn"), "estado") = "on" THEN "encendido" ELSE "apagado")
         \o " las luces del " \o OrElse(Get(fc.data, "area"), "área")
    ELSE IF fc.webhook = "send_notification"
    THEN "[OK] Mensaje enviado correctamente"
    ELSE IF Truthy(res.message) THEN "[OK] " \o res.message
    ELSE "[OK] Acción completada con éxito"

\* lines 2177-2197
ReplyOutcome ==
    /\ pc = "webhook_outcome"
    /\ Reply("outcome", OutcomeMessage(functionCall, result), "done")
    /\ UNCHANGED <<text, depth, detectedIntent, aiResponse, functionCall, webhookInfo, result,
                   handlerCalls>>
    /\ UNCHANGED <<setupVars, enableFunctionCalls, harnessVars>>

\* lines 2200-2202: no function call was executed
ReplyFinal ==
    /\ pc = "reply_final"
    /\ Reply("final", aiResponse, "done")
    /\ UNCHANGED <<text, depth, detectedIntent, aiResponse, functionCall, webhookInfo, result,
                   handlerCalls>>
    /\ UNCHANGED <<setupVars, enableFunctionCalls, harnessVars>>

\* a catch block that awaits its reply: a rejected reply then rejects the
\* promise of handleChatbotMessage
AwaitedCatchReply ==
    /\ pc = "catch"
    /\ \E ok \in BOOLEAN :
          /\ events' = Append(events, ReplyEvent("catch",
                "Lo siento, tuve un problema procesando tu mensaje. Por favor intenta de nuevo.", ok))
          /\ pc' = IF ok THEN "done" ELSE "rejected"
    /\ UNCHANGED <<text, depth, detectedIntent, aiResponse, functionCall, webhookInfo, result,
                   handlerCalls>>
    /\ UNCHANGED <<setupVars, enableFunctionCalls, harnessVars>>

\* lines 2204-2207: the reply of the catch block is not awaited, so its
\* rejection changes nothing in the run
CatchReply ==
    /\ pc = "catch"
    /\ \E ok \in BOOLEAN : events' = Append(events, ReplyEvent("catch",
              "Lo siento, tuve un problema procesando tu mensaje. Por favor intenta de nuevo.", ok))
    /\ pc' = "done"
    /\ UNCHANGED <<text, depth, detectedIntent, aiResponse, functionCall, webhookInfo, result,
                   handlerCalls>>
    /\ UNCHANGED <<setupVars, enableFunctionCalls, harnessVars>>

\* the processing of the message is over; the bot waits for the next one
Finish ==
    /\ pc = "done"
    /\ pc' = "idle" /\ text' = "" /\ depth' = 0 /\ detectedIntent' = "CHAT"
    /\ aiResponse' = NULL /\ functionCall' = NoCall /\ webhookInfo' = NotFound
    /\ result' = NULL /\ events' = <<>> /\ handlerCalls' = 0
    /\ UNCHANGED <<setupVars, enableFunctionCalls, harnessVars>>

Next ==
    \/ ReceiveMessage
    \/ DetectIntent
    \/ GenerateChat
    \/ GenerateFunction
    \/ Dispatch
    \/ LogCommand
    \/ ReplyBeforeCommand
    \/ InvokeCommand
    \/ SettingsCommand
    \/ AICommandEmpty
    \/ AICommandDelegate
    \/ RunCommand
    \/ ReplyNotFound
    \/ ReplyInvalid
    \/ LogWebhook
    \/ ReplyBeforeWebhook
    \/ InvokeWebhook
    \/ ReplyOutcome
    \/ ReplyFinal
    \/ CatchReply
    \/ Finish

Spec == Init /\ [][Next]_vars

(***************************************************************************)
(* handleChatbotMessage of src/commands/chatbotCommand.js: one model call, *)
(* no classification, no extraction or validation of parameters.  Its     *)
(* steps after the dispatch are those of the router above, line for line. *)
(***************************************************************************)
\* lines 233-342: the answer of the configured backend; an error of the OpenAI
\* path (the API call, or JSON.parse of the arguments of the tool call) falls
\* back to getOllamaResponse, whose error is not caught here
chatbotCommandResponse(provider, answer, fallback) ==
    IF provider = "openai" /\ ~answer.threw /\ answer.tool.name = "none"
    THEN ModelResult(OrElse(answer.content, "No recibí respuesta clara del modelo de IA."), NoCall)
    ELSE IF provider = "openai" /\ ~answer.threw /\ ~answer.tool.malformed
    THEN ModelResult(OrElse(answer.content, ""),
             IF answer.tool.name = "execute_command"
             THEN CommandCall(answer.tool.arguments.command, OrElse(answer.tool.arguments.args, ""))
             ELSE IF answer.tool.name = "execute_webhook"
             THEN WebhookCall(answer.tool.arguments.webhook, answer.tool.arguments.data)
             ELSE NoCall)
    ELSE callOllama(IF provider = "openai" THEN fallback ELSE answer, "chat")

\* lines 397-403: the note added to the text when function calls are disabled
DisabledNote(fc) ==
    "\n\n_La ejecución automática de "
    \o (IF Truthy(Get(fc, "command")) THEN "comando" ELSE "acción")
    \o "s está desactivada. Usa !settings funciones on para activarla._"

\* line 223: there is no test of the text at the entry
chatbotCommandReceive ==
    /\ pc = "idle"
    /\ \E t \in UserTexts : text' = t
    /\ pc' = "respond"
    /\ depth' = 1
    /\ UNCHANGED <<detectedIntent, aiResponse, functionCall, webhookInfo, result, events,
                   handlerCalls>>
    /\ UNCHANGED <<setupVars, enableFunctionCalls, harnessVars>>

\* lines 395-437, up to the first await: the note on disabled function calls
\* (which changes the text only), and where the run goes.  Without a function
\* call, line 406 reads functionCall.command of null, which throws a TypeError.
chatbotCommandDispatch(response, found) ==
    LET info == IF Truthy(Get(found.functionCall, "webhook"))
                THEN findWebhook(Registry, found.functionCall.webhook)
                ELSE NotFound
    IN  /\ events' = Append(events, [e |-> "model", purpose |-> "function",
                                     threw |-> response.threw, text |-> response.text])
        /\ functionCall' = found.functionCall
        /\ aiResponse' = IF ~areFunctionCallsEnabled /\ found.functionCall # NoCall
                         THEN found.aiResponse \o DisabledNote(found.functionCall)
                         ELSE found.aiResponse
        /\ webhookInfo' = info
        /\ pc' = IF response.threw \/ found.functionCall = NoCall THEN "catch"
                 ELSE IF IsRegisteredCommand(found.functionCall) THEN "command_log"
                 ELSE IF Truthy(Get(found.functionCall, "webhook"))
                 THEN (IF info.found THEN "webhook_log" ELSE "reply_not_found")
                 ELSE "reply_final"

\* lines 376-393: the function call of the answer, native or found in its text
chatbotCommandParse(response) ==
    chatbotCommandDispatch(response,
        IF response.threw THEN [aiResponse |-> NULL, functionCall |-> NoCall]
        ELSE FunctionResponse(response))

\* lines 226-437, up to the first await after the model call
chatbotCommandRespond ==
    /\ pc = "respond"
    /\ \E answer \in FunctionAnswers(config.function, depth >= MaxDepth), fallback \in ChatAnswers :
          chatbotCommandParse(chatbotCommandResponse(config.function, answer, fallback))
    /\ UNCHANGED <<text, depth, detectedIntent, result, handlerCalls>>
    /\ UNCHANGED <<setupVars, enableFunctionCalls, harnessVars>>

\* handleAICommand with a prompt: a new run of this handleChatbotMessage
chatbotCommandDelegate ==
    /\ pc = "ia"
    /\ Truthy(functionCall.args) /\ Trim(functionCall.args) # ""
    /\ depth < MaxDepth
    /\ text' = functionCall.args
    /\ depth' = depth + 1
    /\ pc' = "respond"
    /\ aiResponse' = NULL
    /\ functionCall' = NoCall
    /\ webhookInfo' = NotFound
    /\ result' = NULL
    /\ events' = <<>>
    /\ UNCHANGED <<detectedIntent, handlerCalls>>
    /\ UNCHANGED <<setupVars, enableFunctionCalls, harnessVars>>

chatbotCommandNext ==
    \/ chatbotCommandReceive
    \/ chatbotCommandRespond
    \/ LogCommand
    \/ ReplyBeforeCommand
    \/ InvokeCommand
    \/ SettingsCommand
    \/ AICommandEmpty
    \/ chatbotCommandDelegate
    \/ RunCommand
    \/ ReplyNotFound
    \/ LogWebhook
    \/ ReplyBeforeWebhook
    \/ InvokeWebhook
    \/ ReplyOutcome
    \/ ReplyFinal
    \/ CatchReply
    \/ Finish

SpecChatbotCommand == Init /\ [][chatbotCommandNext]_vars

(***************************************************************************)
(* Specifications that apply one function to inputs drawn at start         *)
(***************************************************************************)
\* a bot that has started and is not processing a message
Started(env) ==
    /\ config = [intent |-> "ollama", chat |-> "ollama", function |-> "ollama"]
    /\ commands = CommandModules
    /\ webhooks = LoadWebhooks(EmptyRegistry, 1, env).webhooks
    /\ webhooksByExternalId = LoadWebhooks(EmptyRegistry, 1, env).webhooksByExternalId
    /\ enableFunctionCalls = TRUE
    /\ RouterIdle

\* ---- extractParametersFromMessage ----
\* messages, webhook names and payloads; a payload holds null, the empty
\* string or other strings
ExtractInputs ==
    LET ExistingMaps ==
            {EmptyMap}
            \cup {Put(EmptyMap, k, v) :
                     k \in {"area", "turn", "device", "message", "to", "location", "note"},
                     v \in {NULL, "", "room", "later"}}
            \cup {[area |-> "room", turn |-> "on"], [area |-> "", turn |-> "on"],
                  [message |-> "hi", to |-> NULL]}
    IN  [text : {"turn off the office lights", "Enciende la Oficina", "prende el TV",
                 "send Hola Luis", "hola", "apaga el cuarto"},
         webhook : {"area_control", "device_control", "send_notification", "sensor_report",
                    "scene", "nope"},
         existing : ExistingMaps]

ExtractInit ==
    /\ Started(EmptyMap)
    /\ fin \in ExtractInputs
    /\ fout = NULL
    /\ fpc = "ready"

Extract ==
    /\ fpc = "ready"
    /\ fout' = extractParametersFromMessage(fin.text, fin.webhook, fin.existing)
    /\ fpc' = "done"
    /\ UNCHANGED <<fin, setupVars, enableFunctionCalls, routerVars>>

\* a second call, with the same text and webhook, on the map the first call
\* returned
ExtractAgain ==
    /\ fpc = "done"
    /\ fin' = [fin EXCEPT !.existing = fout]
    /\ fout' = extractParametersFromMessage(fin.text, fin.webhook, fout)
    /\ fpc' = "again"
    /\ UNCHANGED <<setupVars, enableFunctionCalls, routerVars>>

SpecExtract == ExtractInit /\ [][Extract \/ ExtractAgain]_vars

\* ---- validateParameters ----
\* for each webhook, every map that gives some of its declared parameters a
\* supplied value
ValidateInputs ==
    LET RuleNames(w) == {rule.name : rule \in Range(parameterExtractionRules(w))}
        ParamMaps(names) ==
            UNION {[S -> {NULL, "on", "office", "movie", "all", "maybe"}] : S \in SUBSET names}
    IN  UNION {{[webhook |-> w, params |-> p] : p \in ParamMaps(RuleNames(w))} :
                  w \in {"area_control", "device_control", "send_notification",
                          "sensor_report", "scene", "nope"}}

ValidateInit ==
    /\ Started(EmptyMap)
    /\ fin \in ValidateInputs
    /\ fout = NULL
    /\ fpc = "ready"

Validate ==
    /\ fpc = "ready"
    /\ fout' = validateParameters(fin.webhook, fin.params)
    /\ fpc' = "done"
    /\ UNCHANGED <<fin, setupVars, enableFunctionCalls, routerVars>>

SpecValidate == ValidateInit /\ [][Validate]_vars

\* ---- the two ways a function call reaches the router ----
\* the calls a model means
MeantCalls ==
    {CommandCall(c, a) : c \in {"!clima", "!help", "!nope"},
                         a \in {"", "Madrid", "Buenos Aires", "say \"hi\""}}
    \cup {WebhookCall(w, d) : w \in {"area_control", "luces", "send_notification", "nope"},
                              d \in {EmptyMap, [area |-> "office", turn |-> "off"],
                                     [message |-> "I'll be late", to |-> "Luis"],
                                     [area |-> NULL]}}

\* the call as the router holds it after callOpenAI answered with a tool call
NativeCall(call, userMessage) ==
    [threw |-> callOpenAI(Registry, Answer(NULL, ToolOf(call)), userMessage).threw,
     functionCall |-> callOpenAI(Registry, Answer(NULL, ToolOf(call)), userMessage).functionCall]

\* the call as the router holds it after callOllama answered with the marker
\* (lines 2052-2076 of handleChatbotMessage included)
TextCall(call) ==
    [threw |-> callOllama(Answer(Marker(call), NoTool), call.type).threw,
     functionCall |-> FunctionResponse(callOllama(Answer(Marker(call), NoTool),
                                                  call.type)).functionCall]

ParseInit ==
    /\ \E env \in WebhookEnvs : Started(env)
    /\ fin \in [call : MeantCalls, text : {"tell me a joke"}]
    /\ fout = [native |-> NULL, text |-> NULL]
    /\ fpc = "ready"

NativePath ==
    /\ fpc \in {"ready", "text"}
    /\ fout' = [fout EXCEPT !.native = NativeCall(fin.call, fin.text)]
    /\ fpc' = IF fpc = "ready" THEN "native" ELSE "both"
    /\ UNCHANGED <<fin, setupVars, enableFunctionCalls, routerVars>>

TextPath ==
    /\ fpc \in {"ready", "native"}
    /\ fout' = [fout EXCEPT !.text = TextCall(fin.call)]
    /\ fpc' = IF fpc = "ready" THEN "text" ELSE "both"
    /\ UNCHANGED <<fin, setupVars, enableFunctionCalls, routerVars>>

SpecParse == ParseInit /\ [][NativePath \/ TextPath]_vars

(***************************************************************************)
(* safeApiRequest (src/commands/utils.js), with time in ticks              *)
(***************************************************************************)
\* the longest time followed
MaxTime == 4

\* a call: the url, the timeout, and what the server would answer
RequestInit ==
    /\ Started(EmptyMap)
    /\ fin \in [url : {"", "http://localhost:11434/api/chat"},
                timeoutMs : {1, 2},
                ok : BOOLEAN,
                contentType : {"application/json", "text/plain"}]
    /\ fout = [now |-> 0, timer |-> "none", result |-> NULL]
    /\ fpc = "ready"

\* lines 26-38: the url test, setTimeout(() => controller.abort(), timeoutMs)
\* and the start of fetch
StartRequest ==
    /\ fpc = "ready"
    /\ IF ~Truthy(fin.url)
       THEN /\ fpc' = "rejected"
            /\ fout' = [fout EXCEPT !.result = "URL is required for API requests"]
       ELSE /\ fpc' = "fetch"
            /\ fout' = [fout EXCEPT !.timer = "armed"]
    /\ UNCHANGED <<fin, setupVars, enableFunctionCalls, routerVars>>

\* time passes while the call is pending; an armed timer fires when its time
\* has come, before more time passes
Elapse ==
    /\ fpc \in {"fetch", "body"}
    /\ fout.now < MaxTime
    /\ ~(fout.timer = "armed" /\ fout.now >= fin.timeoutMs)
    /\ fout' = [fout EXCEPT !.now = @ + 1]
    /\ UNCHANGED <<fin, fpc, setupVars, enableFunctionCalls, routerVars>>

\* line 33 and lines 56-59: the timer aborts the fetch in flight, whose
\* AbortError is rethrown as the timeout error
TimerFires ==
    /\ fpc = "fetch"
    /\ fout.timer = "armed"
    /\ fout.now >= fin.timeoutMs
    /\ fpc' = "rejected"
    /\ fout' = [fout EXCEPT !.timer = "fired", !.result = "timed out"]
    /\ UNCHANGED <<fin, setupVars, enableFunctionCalls, routerVars>>

\* lines 36-41: fetch settles: with the response once its status and headers
\* are there, and then clearTimeout(timeoutId); or with a network error
FetchSettles ==
    /\ fpc = "fetch"
    /\ \E outcome \in {"response", "ECONNREFUSED"} :
          IF outcome = "response"
          THEN /\ fpc' = "body"
               /\ fout' = [fout EXCEPT !.timer = "cleared"]
          ELSE /\ fpc' = "rejected"
               /\ fout' = [fout EXCEPT !.result = "Cannot connect"]
    /\ UNCHANGED <<fin, setupVars, enableFunctionCalls, routerVars>>

\* lines 44-54: the body is read (response.text() of an error status, whose
\* failure is replaced by a fixed text; response.json() or response.text()
\* otherwise, whose failure is thrown)
BodySettles ==
    /\ fpc = "body"
    /\ \E outcome \in {"read", "fails"} :
          IF ~fin.ok
          THEN fpc' = "rejected" /\ fout' = [fout EXCEPT !.result = "API request failed with status"]
          ELSE IF outcome = "read"
          THEN fpc' = "resolved" /\ fout' = [fout EXCEPT !.result = fin.contentType]
          ELSE fpc' = "rejected" /\ fout' = [fout EXCEPT !.result = "body error"]
    /\ UNCHANGED <<fin, setupVars, enableFunctionCalls, routerVars>>

SpecRequest ==
    RequestInit /\ [][StartRequest \/ Elapse \/ TimerFires \/ FetchSettles \/ BodySettles]_vars

(***************************************************************************)
(* The webhook registry under sequences of register calls                  *)
(***************************************************************************)
\* the number of register calls followed
MaxRegisters == 3

\* a new WebhookHandler (lines 165-173); fout counts the register calls
RegistryInit ==
    /\ config = [intent |-> "ollama", chat |-> "ollama", function |-> "ollama"]
    /\ commands = CommandModules
    /\ webhooks = EmptyMap /\ webhooksByExternalId = EmptyMap
    /\ enableFunctionCalls = TRUE
    /\ RouterIdle
    /\ fin = NULL /\ fout = 0 /\ fpc = "registry"

\* register(name, handler, description, externalId) with a function and a
\* description; an empty name throws before anything is stored (lines 195-197)
RegisterWebhook ==
    /\ fpc = "registry"
    /\ fout < MaxRegisters
    /\ \E name \in {"", "area_control", "scene"}, externalId \in {NULL, "luces", "escena"} :
          LET reg == IF Truthy(name) THEN register(Registry, name, externalId, NULL) ELSE Registry
          IN  /\ webhooks' = reg.webhooks
              /\ webhooksByExternalId' = reg.webhooksByExternalId
    /\ fout' = fout + 1
    /\ fin' = NULL /\ webhookInfo' = NotFound /\ result' = NULL
    /\ UNCHANGED <<config, commands, enableFunctionCalls, fpc, pc, text, depth, detectedIntent,
                   aiResponse, functionCall, events, handlerCalls>>

\* handleWebhook(idOrName, data) for an identifier (lines 320-361): the webhook
\* whose handler is invoked is the one findWebhook returns
HandleWebhook ==
    /\ fpc = "registry"
    /\ \E idOrName \in {"area_control", "scene", "luces", "escena", "nope"} :
          /\ fin' = idOrName
          /\ webhookInfo' = findWebhook(Registry, idOrName)
          /\ result' = handleWebhook(Registry, idOrName, "success")
    /\ UNCHANGED <<setupVars, enableFunctionCalls, fout, fpc, pc, text, depth, detectedIntent,
                   aiResponse, functionCall, events, handlerCalls>>

SpecRegistry == RegistryInit /\ [][RegisterWebhook \/ HandleWebhook]_vars

(***************************************************************************)
(* POST /webhook/:id behind verifyWebhookApiKey                            *)
(***************************************************************************)
\* a request about to enter the middleware chain: fin holds CONFIG (lines
\* 299-300) and the request, fout the response and what was called
WebhookPostInit ==
    /\ Started(EmptyMap)
    /\ fin \in [REQUIRE_WEBHOOK_AUTH : BOOLEAN,
                WEBHOOK_API_KEY : {"", "secret", "other"},
                apiKey : {UNDEFINED, "", "secret", "other", "Secret"},
                id : {"area_control", "nope"}]
    /\ fout = [status |-> 0, handled |-> FALSE, invoked |-> 0]
    /\ fpc = "request"

\* the middleware whose key test is only that a key was sent
verifyAnyApiKey ==
    /\ fpc = "request"
    /\ IF ~fin.REQUIRE_WEBHOOK_AUTH
       THEN fpc' = "next" /\ fout' = fout
       ELSE IF ~Truthy(fin.WEBHOOK_API_KEY)
       THEN fpc' = "responded" /\ fout' = [fout EXCEPT !.status = 500]
       ELSE IF ~Truthy(fin.apiKey)
       THEN fpc' = "responded" /\ fout' = [fout EXCEPT !.status = 401]
       ELSE fpc' = "next" /\ fout' = fout
    /\ UNCHANGED <<setupVars, enableFunctionCalls, routerVars, fin>>

\* verifyWebhookApiKey(req, res, next), lines 589-610
verifyWebhookApiKey ==
    /\ fpc = "request"
    /\ IF ~fin.REQUIRE_WEBHOOK_AUTH
       THEN fpc' = "next" /\ fout' = fout
       ELSE IF ~Truthy(fin.WEBHOOK_API_KEY)
       THEN fpc' = "responded" /\ fout' = [fout EXCEPT !.status = 500]
       ELSE IF ~Truthy(fin.apiKey) \/ fin.apiKey # fin.WEBHOOK_API_KEY
       THEN fpc' = "responded" /\ fout' = [fout EXCEPT !.status = 401]
       ELSE fpc' = "next" /\ fout' = fout
    /\ UNCHANGED <<setupVars, enableFunctionCalls, routerVars, fin>>

\* the route handler (lines 618-646): handleWebhook runs the handler of the
\* webhook it finds and catches what the handler throws
postWebhook ==
    /\ fpc = "next"
    /\ \E outcome \in {"success", "failure", "throws"} :
          LET res == handleWebhook(Registry, fin.id, outcome)
          IN  fout' = [status |-> IF res.success = FALSE THEN 400 ELSE 200,
                       handled |-> TRUE,
                       invoked |-> IF findWebhook(Registry, fin.id).found
                                   THEN fout.invoked + 1 ELSE fout.invoked]
    /\ fpc' = "responded"
    /\ UNCHANGED <<setupVars, enableFunctionCalls, routerVars, fin>>

SpecWebhookPost == WebhookPostInit /\ [][verifyWebhookApiKey \/ postWebhook]_vars

(***************************************************************************)
(* client.on('message'): authorization of the sender, then the commands    *)
(***************************************************************************)
\* number.replace(/[^0-9]/g, '')
RECURSIVE OnlyDigits(_)
OnlyDigits(s) ==
    IF s = "" THEN ""
    ELSE (IF CharAt(s, 1) \in {"0", "1", "2", "3", "4", "5", "6", "7", "8", "9"}
          THEN CharAt(s, 1) ELSE "") \o OnlyDigits(From(s, 2))

\* (process.env.ADMIN_NUMBERS || '').split(',').map(num => num.trim()).filter(Boolean)
AdminNumbers(env) ==
    LET Cut(i) == i = 0 \/ i = Len(env) + 1 \/ CharAt(env, i) = ","
        Pieces == {SubSeq(env, i + 1, j - 1) : <<i, j>> \in
                     {p \in (0..Len(env)) \X (1..Len(env) + 1) :
                         /\ p[1] < p[2] /\ Cut(p[1]) /\ Cut(p[2])
                         /\ \A k \in (p[1] + 1)..(p[2] - 1) : ~Cut(k)}}
    IN  {Trim(piece) : piece \in Pieces} \ {""}

\* isAdmin(number), utils.js lines 122-138
isAdmin(env, number) ==
    IF ~Truthy(number) THEN FALSE
    ELSE \E admin \in AdminNumbers(env) :
            LET normalizedNumber == OnlyDigits(number)
                suffix == OnlyDigits(admin)
            IN  /\ Len(suffix) <= Len(normalizedNumber)
                /\ From(normalizedNumber, Len(normalizedNumber) - Len(suffix) + 1) = suffix

\* a message that has just arrived: fin holds ADMIN_NUMBERS and the message,
\* fout what the bot has done with it
MessageInit ==
    /\ Started(EmptyMap)
    /\ fin \in [ADMIN_NUMBERS : {"", "12345", "+12 345, 678"},
                getContact : {"resolves", "rejects"},
                number : {UNDEFINED, "", "12345", "12-345", "9912345", "678", "555"},
                body : {"hola", "!restart", "!help", "!nada"}]
    /\ fout = [authorized |-> FALSE, handlers |-> 0, router |-> 0, replies |-> 0,
               restarted |-> FALSE]
    /\ fpc = "received"

\* an authorization check after which the handler carries on regardless
isAuthorizedSenderUnheeded ==
    /\ fpc = "received"
    /\ fout' = [fout EXCEPT !.authorized =
                    fin.getContact = "resolves" /\ isAdmin(fin.ADMIN_NUMBERS, fin.number)]
    /\ fpc' = "authorized"
    /\ UNCHANGED <<setupVars, enableFunctionCalls, routerVars, fin>>

\* isAuthorizedSender(msg) (messageFilter, lines 19-28) and the early return
\* of the message handler (part_003 lines 473-478)
isAuthorizedSender ==
    /\ fpc = "received"
    /\ fout' = [fout EXCEPT !.authorized =
                    fin.getContact = "resolves" /\ isAdmin(fin.ADMIN_NUMBERS, fin.number)]
    /\ fpc' = IF fout'.authorized THEN "authorized" ELSE "ignored"
    /\ UNCHANGED <<setupVars, enableFunctionCalls, routerVars, fin>>

\* the rest of the message handler (part_003 lines 480-494):
\* commands.handleMessage runs the handler of the registered prefix the
\* trimmed text starts with, and !restart asks isAdmin about the sender again; a text no
\* command matches is answered as unrecognised or handed to the chatbot
onMessage ==
    /\ fpc = "authorized"
    /\ LET prefixes == {"!ia", "!help", "!restart", "!suscribir", "!clima", "!settings"}
           matched == {p \in prefixes : StartsAt(Trim(fin.body), p, 1)}
       IN  fout' =
             IF matched # {}
             THEN [fout EXCEPT !.handlers = @ + 1, !.replies = @ + 1,
                               !.restarted = "!restart" \in matched
                                             /\ isAdmin(fin.ADMIN_NUMBERS, fin.number)]
             ELSE IF StartsAt(fin.body, "!ia", 1)
             THEN [fout EXCEPT !.replies = @ + 1]
             ELSE IF ~StartsAt(fin.body, "!", 1)
             THEN [fout EXCEPT !.router = @ + 1, !.replies = @ + 1]
             ELSE fout
    /\ fpc' = "done"
    /\ UNCHANGED <<setupVars, enableFunctionCalls, routerVars, fin>>

SpecMessage == MessageInit /\ [][isAuthorizedSender \/ onMessage]_vars

(***************************************************************************)
(* subscribeUser / unsubscribeUser on the subscription file                *)
(***************************************************************************)
\* two operations about to run on an existing subscription file: fin holds
\* the operations, fout the file (the subscribers of each channel), the data
\* each operation has loaded and changed, and what each has returned
SubscribeInit ==
    /\ Started(EmptyMap)
    /\ fin \in [1..2 -> [kind : {"subscribeUser", "unsubscribeUser"},
                         number : {"111", "222"}, channel : {"weather", "alerts"}]]
    /\ \E file \in [{"weather", "alerts"} -> SUBSET {"111", "222"}] :
          fout = [file |-> file, data |-> <<file, file>>, returned |-> <<FALSE, FALSE>>]
    /\ fpc = <<"start", "start">>

\* await loadSubscriptions() (lines 64-87) and the change made to the loaded
\* data before the next await (lines 141-153 and 171-188): an operation that
\* has nothing to change returns false
loadSubscriptions ==
    \E p \in 1..2 :
       /\ fpc[p] = "start"
       /\ LET op == fin[p]
              subscribers == fout.file[op.channel]
              changes == (op.kind = "subscribeUser") # (op.number \in subscribers)
              changed == IF op.kind = "subscribeUser"
                         THEN subscribers \cup {op.number}
                         ELSE subscribers \ {op.number}
          IN  /\ fout' = [fout EXCEPT !.data[p] =
                              [fout.file EXCEPT ![op.channel] =
                                   IF changes THEN changed ELSE @]]
              /\ fpc' = [fpc EXCEPT ![p] = IF changes THEN "save" ELSE "done"]
       /\ UNCHANGED <<setupVars, enableFunctionCalls, routerVars, fin>>

\* await saveSubscriptions(data) (lines 97-118) writes the whole of the data
\* the operation holds, and the operation returns true
saveSubscriptions ==
    \E p \in 1..2 :
       /\ fpc[p] = "save"
       /\ fout' = [fout EXCEPT !.file = fout.data[p], !.returned[p] = TRUE]
       /\ fpc' = [fpc EXCEPT ![p] = "done"]
       /\ UNCHANGED <<setupVars, enableFunctionCalls, routerVars, fin>>

SpecSubscribe == SubscribeInit /\ [][loadSubscriptions \/ saveSubscriptions]_vars

(***************************************************************************)
(* Properties                                                              *)
(***************************************************************************)
\* positions in the events of the current router run
Replies == {i \in DOMAIN events : events[i].e = "reply"}

Delivered == {i \in Replies : events[i].ok}

Handlers == {i \in DOMAIN events : events[i].e = "handler"}

RepliesOf(kind) == {i \in Replies : events[i].kind = kind}

NoReplyRejected == \A i \in Replies : events[i].ok

\* the classification call of the current run threw
ClassificationThrew ==
    /\ events # <<>>
    /\ events[1].e = "model" /\ events[1].purpose = "intent" /\ events[1].threw

\* C1: at most one handler (command or webhook) is invoked for one inbound
\* message, counting the invocations of router runs that the invoked command
\* starts.
C1_AtMostOneHandler == handlerCalls <= 1

\* C2: when the classification call throws, the run invokes no handler and
\* delivers at most one reply, exactly one reply being sent unless the
\* transport rejects it, whatever the chat call returns or throws.
C2_ClassificationFailure ==
    ClassificationThrew =>
        /\ Handlers = {}
        /\ Cardinality(Delivered) <= 1
        /\ pc = "done" => /\ Replies # {}
                          /\ NoReplyRejected => Cardinality(Replies) = 1

C2_Witness ==
    /\ pc = "done"
    /\ ClassificationThrew
    /\ Len(events) = 3
    /\ events[2].e = "model" /\ events[2].purpose = "chat" /\ events[2].threw
    /\ events[3].e = "reply" /\ events[3].ok /\ events[3].body = "Lo siento, tuve un problema generando una respuesta. Por favor intenta de nuevo."

\* C3: after the classification step the bucket is one of CHAT, COMMAND,
\* WEBHOOK, whatever intent value the classifier names.
C3_BucketIsKnown == detectedIntent \in {"CHAT", "COMMAND", "WEBHOOK"}

\* every required parameter present and non-null, every constrained value
\* inside its allowed values
MeetsRules(webhookName, params) ==
    \A rule \in Range(parameterExtractionRules(webhookName)) :
        /\ rule.required => HasOwn(params, rule.name) /\ params[rule.name] # NULL
        /\ (HasOwn(params, rule.name) /\ rule.validValues # <<>>)
               => params[rule.name] \in Range(rule.validValues)

\* the message names every missing or invalid parameter with its allowed values
Itemized(body, webhookName, params) ==
    \A rule \in Range(parameterExtractionRules(webhookName)) :
        LET missing == rule.required /\ (~HasOwn(params, rule.name) \/ params[rule.name] = NULL)
            invalid == /\ HasOwn(params, rule.name) /\ rule.validValues # <<>>
                       /\ params[rule.name] \notin Range(rule.validValues)
        IN  (missing \/ invalid) =>
                /\ Includes(body, "- " \o rule.name)
                /\ rule.validValues # <<>> => Includes(body, "[" \o Join(rule.validValues) \o "]")

\* C4: a webhook handler is invoked only with parameters that meet the rules
\* of its webhook; when validation fails the run sends one reply, the
\* itemized error, invokes no handler and ends.
C4_ValidatedDispatch ==
    /\ \A i \in Handlers :
          events[i].kind = "webhook" => MeetsRules(events[i].name, events[i].arg)
    /\ pc = "reply_invalid" =>
          /\ ~MeetsRules(webhookInfo.name, functionCall.data)
          /\ Replies = {} /\ Handlers = {}
    /\ \A i \in RepliesOf("invalid") :
          /\ ~MeetsRules(webhookInfo.name, functionCall.data)
          /\ Handlers = {}
          /\ \A j \in Replies : j >= i
          /\ Cardinality(Delivered) <= 1
          /\ Itemized(events[i].body, webhookInfo.name, functionCall.data)
          /\ pc \in {"done", "catch"}
          /\ events[i].ok => pc = "done" /\ i = Len(events)

C4_Witness ==
    /\ pc = "done"
    /\ RepliesOf("invalid") # {}
    /\ events[Len(events)].e = "reply" /\ events[Len(events)].kind = "invalid"
    /\ events[Len(events)].ok
    /\ webhookInfo.name = "area_control"
    /\ Get(functionCall.data, "turn") = "maybe"

\* C5: every key of the existing map keeps its value in the map that
\* extractParametersFromMessage returns, whatever value it holds.
C5_ExistingKeysKept ==
    fpc = "done" =>
        \A k \in DOMAIN fin.existing : HasOwn(fout, k) /\ fout[k] = fin.existing[k]

\* the required parameters of a webhook that a map lacks or holds as null
RequiredMissing(webhookName, params) ==
    {rule.name : rule \in {r \in Range(parameterExtractionRules(webhookName)) :
                              r.required /\ (~HasOwn(params, r.name) \/ params[r.name] = NULL)}}

\* C6: missingParams holds exactly the required parameters that are absent
\* or null, isValid is false when it is non-empty, and isValid is true
\* exactly when missingParams and invalidParams are both empty.
C6_MissingExact ==
    fpc = "done" =>
        LET names == {fout.missingParams[i].name : i \in DOMAIN fout.missingParams}
        IN  /\ names = RequiredMissing(fin.webhook, fin.params)
            /\ Cardinality(names) = Len(fout.missingParams)
            /\ fout.missingParams # <<>> => ~fout.isValid
            /\ fout.isValid <=> (fout.missingParams = <<>> /\ fout.invalidParams = <<>>)

C6_Witness ==
    /\ fpc = "done"
    /\ fin.webhook = "area_control"
    /\ HasOwn(fin.params, "area") /\ fin.params["area"] = NULL
    /\ ~HasOwn(fin.params, "turn")
    /\ Len(fout.missingParams) = 2
    /\ ~fout.isValid

\* C7: a supplied value outside the non-empty validValues of its parameter
\* is reported in invalidParams with its name, the value and the allowed
\* values, and isValid is false.  (Every rule of parameterExtractionRules
\* that has validValues is a required one.)
C7_InvalidReported ==
    fpc = "done" =>
        \A rule \in Range(parameterExtractionRules(fin.webhook)) :
            (/\ rule.validValues # <<>>
             /\ HasOwn(fin.params, rule.name)
             /\ fin.params[rule.name] # NULL
             /\ fin.params[rule.name] \notin Range(rule.validValues))
            => /\ \E i \in DOMAIN fout.invalidParams :
                     fout.invalidParams[i] = [name |-> rule.name,
                                              value |-> fin.params[rule.name],
                                              validValues |-> rule.validValues]
               /\ ~fout.isValid

C7_Witness ==
    /\ fpc = "done"
    /\ fin.webhook = "area_control"
    /\ fin.params = [area |-> "office", turn |-> "maybe"]
    /\ fout.invalidParams = <<[name |-> "turn", value |-> "maybe", validValues |-> <<"on", "off">>]>>
    /\ ~fout.isValid

\* C8: a call the model means reaches the router as the same function call,
\* {webhook: W, data: P} or {command: C, args: A}, through the native tool
\* call of callOpenAI and through the marker that callOllama returns.
C8_SameCall ==
    fpc = "both" =>
        /\ fout.native = [threw |-> FALSE, functionCall |-> fin.call]
        /\ fout.text = [threw |-> FALSE, functionCall |-> fin.call]

\* C9: when a handler is invoked and the explanatory text is non-empty, the
\* text was sent as a reply before the handler was invoked; the reply on the
\* outcome is another reply, sent after the handler was invoked and after the
\* explanatory reply.
C9_TextBeforeOutcome ==
    /\ \A h \in Handlers :
          Truthy(aiResponse) =>
              \E t \in RepliesOf("text") :
                  t < h /\ events[t].ok /\ events[t].body = aiResponse
    /\ \A o \in RepliesOf("outcome") :
          /\ \E h \in Handlers : h < o /\ events[h].kind = "webhook"
          /\ \A t \in RepliesOf("text") : t < o

C9_Witness ==
    /\ pc = "done"
    /\ Truthy(aiResponse)
    /\ \E t \in RepliesOf("text"), h \in Handlers, o \in RepliesOf("outcome") :
          t < h /\ h < o /\ events[o].ok

\* C10: when the function call names a command that is not registered, the
\* run invokes no handler, does not throw, and a reply says that the command
\* was not found.
C10_UnknownCommandReported ==
    (/\ pc = "done"
     /\ functionCall.type = "command"
     /\ functionCall.command \notin commands
     /\ detectedIntent = "COMMAND"
     /\ enableFunctionCalls
     /\ NoReplyRejected)
    => /\ Handlers = {}
       /\ RepliesOf("catch") = {}
       /\ \E i \in Replies : Includes(events[i].body, "No encontré")

\* C11: when the function call names a webhook that is neither a registered
\* internal name nor a registered external ID, the run sends exactly one
\* reply, which says that the webhook was not found, invokes no handler,
\* sends no validation error and does not throw; the step that finds the
\* webhook unknown leaves the data of the call as the model gave it (no
\* extraction is applied).
C11_UnknownWebhookReported ==
    /\ []((/\ pc = "done"
           /\ functionCall.type = "webhook"
           /\ functionCall.webhook \notin (DOMAIN webhooks \cup DOMAIN webhooksByExternalId)
           /\ enableFunctionCalls
           /\ NoReplyRejected)
          => /\ Cardinality(Replies) = 1
             /\ RepliesOf("not_found") = Replies
             /\ \A i \in Replies :
                   Includes(events[i].body,
                            "No encontré el webhook \"" \o functionCall.webhook \o "\"")
             /\ Handlers = {}
             /\ RepliesOf("catch") = {})
    /\ [][(pc = "dispatch" /\ pc' = "reply_not_found") => functionCall' = functionCall]_vars

C11_Witness ==
    /\ pc = "done"
    /\ functionCall.type = "webhook" /\ functionCall.webhook = "nope"
    /\ RepliesOf("not_found") # {}
    /\ events[Len(events)].kind = "not_found" /\ events[Len(events)].ok

\* C12: when a local command handler invoked by the router throws, the run
\* still ends normally (the exception is caught, the run goes through the
\* catch block to its end) and, the transport delivering, the user has
\* received a reply whose text carries the message of the thrown exception.
C12_CommandFailureCarriesMessage ==
    \A t \in DOMAIN events :
        events[t].e = "throw"
            => /\ pc \in {"catch", "done"}
               /\ (pc = "done" /\ NoReplyRejected)
                      => \E i \in Replies : i > t /\ Includes(events[i].body, events[t].message)

\* C13: when the webhook handler invoked by the router throws, handleWebhook
\* returns a failure result (the run goes on to the reply on the outcome, not
\* to the catch block) and, the transport delivering, the run ends with
\* exactly one reply on the outcome, which is a failure message that contains
\* the message of the thrown error, and with no success confirmation.
C13_WebhookFailureCarriesReason ==
    (/\ pc \in {"webhook_outcome", "done"}
     /\ \E h \in Handlers : events[h].kind = "webhook"
     /\ StartsAt(result.error, "Webhook handler error: ", 1))
        => /\ ~result.success
           /\ (pc = "done" /\ NoReplyRejected)
                  => /\ Cardinality(RepliesOf("outcome")) = 1
                     /\ \A o \in RepliesOf("outcome") :
                           /\ StartsAt(events[o].body, "[X]", 1)
                           /\ Includes(events[o].body,
                                       From(result.error, Len("Webhook handler error: ") + 1))

C15_GenerationFailure ==
    \A g \in DOMAIN events :
        (events[g].e = "model" /\ events[g].purpose \in {"chat", "function"} /\ events[g].threw)
            => /\ \A i \in DOMAIN events : i > g => events[i].e = "reply"
               /\ Handlers = {}
               /\ pc \in {"dispatch", "reply_final", "catch", "done"}
               /\ (pc = "done" /\ NoReplyRejected)
                      => /\ Cardinality(Replies) = 1
                         /\ \A r \in Replies :
                               events[r].body =
                                   IF events[g].purpose = "chat"
                                   THEN "Lo siento, tuve un problema generando una respuesta. Por favor intenta de nuevo."
                                   ELSE "Lo siento, tuve un problema procesando tu petición. Por favor intenta de nuevo."

C15_Witness ==
    /\ pc = "done"
    /\ Len(events) = 3
    /\ events[2].e = "model" /\ events[2].purpose = "function" /\ events[2].threw
    /\ events[3].e = "reply" /\ events[3].ok
    /\ detectedIntent = "COMMAND"

\* C16: when the bucket is COMMAND or WEBHOOK and the answer of the function
\* model yields no function call (no native tool call, and no marker in its
\* text or a marker that cannot be parsed), no model call follows, no handler
\* is invoked and, the transport delivering, the run ends with exactly one
\* reply, whose text is the text the model returned.
C16_NoCallRepliesModelText ==
    \A g \in DOMAIN events :
        (/\ events[g].e = "model" /\ events[g].purpose = "function" /\ ~events[g].threw
         /\ detectedIntent \in {"COMMAND", "WEBHOOK"}
         /\ functionCall = NoCall
         /\ pc \notin {"idle", "generate"})
            => /\ \A i \in DOMAIN events : i > g => events[i].e = "reply"
               /\ Handlers = {}
               /\ (pc = "done" /\ NoReplyRejected)
                      => /\ Cardinality(Replies) = 1
                         /\ \A r \in Replies : events[r].body = events[g].text

\* C17: when the bucket is CHAT, the generation call is the chat call (made
\* without function definitions, so its answer has no function call), the
\* text of the answer is not searched for a function call even when it holds
\* an __execute_command or __execute_webhook marker, no handler is invoked
\* and, the transport delivering, the run ends with exactly one reply, which
\* is the text of the answer as the model gave it.
C17_ChatIsNeverDispatched ==
    (detectedIntent = "CHAT" /\ pc \notin {"idle", "classify", "generate"} /\ events # <<>>)
        => /\ Len(events) >= 2
           /\ events[2].e = "model" /\ events[2].purpose = "chat"
           /\ \A i \in DOMAIN events : i > 2 => events[i].e = "reply"
           /\ functionCall = NoCall
           /\ Handlers = {}
           /\ (pc = "done" /\ NoReplyRejected)
                  => /\ Cardinality(Replies) = 1
                     /\ ~events[2].threw => \A r \in Replies : events[r].body = events[2].text

C17_Witness ==
    /\ pc = "done"
    /\ detectedIntent = "CHAT"
    /\ Len(events) = 3
    /\ events[2].purpose = "chat"
    /\ Includes(events[2].text, "__execute_command(")
    /\ events[3].e = "reply" /\ events[3].ok /\ events[3].body = events[2].text

\* C18: every invocation of a command or webhook handler by a run of the
\* router comes after exactly one attempt of that run to append an entry to
\* the audit log, and the entry holds the action id, the arguments or
\* parameters the handler is invoked with, the text of the user and a
\* timestamp; this is so whether the handler then succeeds, returns a failure
\* or throws.
C18_LoggedBeforeInvoked ==
    \A h \in Handlers :
        LET before == {l \in 1..(h - 1) : events[l].e = "log"}
        IN  /\ Cardinality(before) = 1
            /\ \A l \in before :
                  /\ events[l].userMessage = text
                  /\ Truthy(events[l].timestamp)
                  /\ events[l].type = events[h].kind
                  /\ IF events[h].kind = "command"
                     THEN /\ events[l].call.command = events[h].name
                          /\ events[l].call.args = events[h].arg
                     ELSE /\ events[l].call.webhook = events[h].name
                          /\ events[l].call.data = events[h].arg

C18_Witness ==
    /\ pc = "done"
    /\ \E h \in Handlers : events[h].kind = "webhook" /\ events[h - 1].e = "log"
    /\ StartsAt(result.error, "Webhook handler error: ", 1)

\* C19: a failed append to the audit log (or a failed creation of its
\* directory) changes nothing else in the run: the run goes on to the
\* explanatory reply and the invocation, the handler is still invoked, and
\* the replies are those that the text of the model, the call and the
\* result of the handler determine,
\* as they are when the append succeeds (the explanatory text, if any, before
\* the handler; for a webhook, the reply on its outcome after it).
C19_LogFailureChangesNothing ==
    \A l \in DOMAIN events :
        events[l].e = "log" =>
            /\ l = Len(events) => pc \in (IF events[l].type = "command"
                                           THEN {"command_reply", "command_invoke"}
                                           ELSE {"webhook_reply", "webhook_invoke"})
            /\ (pc = "done" /\ NoReplyRejected) =>
                  \E h \in Handlers :
                      /\ h > l
                      /\ events[h].kind = events[l].type
                      /\ {events[r].body : r \in {r \in Replies : l < r /\ r < h}}
                            = (IF Truthy(aiResponse) THEN {aiResponse} ELSE {})
                      /\ events[h].kind = "webhook" =>
                            /\ Len(events) = h + 1
                            /\ events[h + 1] = ReplyEvent("outcome", OutcomeMessage(functionCall, result), TRUE)

C19_Witness ==
    /\ pc = "done"
    /\ NoReplyRejected
    /\ \E l \in DOMAIN events : events[l].e = "log" /\ ~events[l].ok /\ events[l].type = "webhook"
    /\ RepliesOf("text") # {}
    /\ RepliesOf("outcome") # {}

\* C20: while automatic function calls are disabled (since the start, or
\* since `!settings funciones off`), handleChatbotMessage invokes no command
\* handler and no webhook handler, whatever the models answer: a handler is
\* invoked only in a state where function calls are enabled.
C20_DisabledInvokesNothing ==
    [][handlerCalls' > handlerCalls => enableFunctionCalls]_vars

\* C25: extractParametersFromMessage is deterministic and idempotent: the map
\* a call returned is the map any call with the same text, webhook and
\* existing map returns, and a call with the same text and webhook on the
\* returned map returns that map unchanged.
C25_ExtractIdempotent ==
    /\ fpc = "done" => fout = extractParametersFromMessage(fin.text, fin.webhook, fin.existing)
    /\ fpc = "again" => fout = fin.existing

C25_Witness ==
    /\ fpc = "again"
    /\ fin.text = "turn off the office lights" /\ fin.webhook = "area_control"
    /\ fout = [area |-> "office", turn |-> "off"]

\* C26: when function calls are disabled and the answer of the model holds a
\* function call, the run invokes nothing and, the transport delivering, ends
\* with exactly one reply: the text of the model followed by the notice that
\* automatic execution is disabled.
C26_DisabledNotice ==
    (/\ pc = "done"
     /\ ~enableFunctionCalls
     /\ functionCall # NoCall
     /\ Handlers = {}
     /\ NoReplyRejected)
        => /\ Cardinality(Replies) = 1
           /\ \A r \in Replies : events[r].body = aiResponse \o DisabledNote(functionCall)

\* C27: the success confirmation is sent only if the result of the webhook
\* handler does not report failure: when the handler returns, without
\* throwing, a result with success: false, the reply on the outcome is a
\* failure reply and no success confirmation is sent.
C27_HandlerFailureReported ==
    (/\ pc = "done"
     /\ \E h \in Handlers : events[h].kind = "webhook"
     /\ result.success
     /\ ~result.result.success)
        => \A o \in RepliesOf("outcome") :
              /\ ~StartsAt(events[o].body, "[OK]", 1)
              /\ StartsAt(events[o].body, "[X]", 1)

\* C21: a call to safeApiRequest settles no later than its timeout: it is
\* never pending (its fetch in flight, or its body not yet read) after
\* timeoutMs has elapsed, and a call whose timer fired has rejected with the
\* timeout error.
C21_SettlesByTimeout ==
    /\ fpc \in {"fetch", "body"} => fout.now <= fin.timeoutMs
    /\ fout.timer = "fired" => fpc = "rejected" /\ fout.result = "timed out"

\* C22: after any sequence of register calls, every registered webhook is
\* what findWebhook returns for its internal name and for its own current
\* external ID, and handleWebhook invokes the handler of that webhook for
\* either identifier; an identifier that is neither a registered name nor a
\* current external ID is not found, and handleWebhook then returns the
\* not-found result and invokes no handler.
C22_FoundByNameAndExternalId ==
    /\ \A name \in DOMAIN webhooks :
          /\ findWebhook(Registry, name).name = name
          /\ findWebhook(Registry, webhooks[name]).name = name
    /\ fin # NULL =>
          /\ \A name \in DOMAIN webhooks :
                fin \in {name, webhooks[name]} => webhookInfo.found /\ webhookInfo.name = name
          /\ fin \notin (DOMAIN webhooks \cup {webhooks[n] : n \in DOMAIN webhooks})
                => ~webhookInfo.found /\ result.error = "Webhook not found"

\* C28: after any sequence of register calls, every key k of the external-ID
\* index maps to a registered webhook whose current external ID is k, so a
\* webhook that findWebhook returns for k has the name k or the external ID k.
C28_IndexIsCurrent ==
    /\ \A k \in DOMAIN webhooksByExternalId :
          /\ HasOwn(webhooks, webhooksByExternalId[k])
          /\ webhooks[webhooksByExternalId[k]] = k
    /\ (fin # NULL /\ webhookInfo.found) => fin \in {webhookInfo.name, webhookInfo.externalId}


\* C23: with REQUIRE_WEBHOOK_AUTH enabled, a POST /webhook/:id request has a
\* handler invoked only if its X-API-Key equals the configured non-empty
\* WEBHOOK_API_KEY; an unconfigured key is answered 500 and, with a key
\* configured, a missing or different key 401, both without invoking a
\* handler; without auth every request reaches handleWebhook
C23_KeyGuardsHandlers ==
    /\ (fin.REQUIRE_WEBHOOK_AUTH /\ fout.invoked > 0)
           => fin.WEBHOOK_API_KEY # "" /\ fin.apiKey = fin.WEBHOOK_API_KEY
    /\ (fin.REQUIRE_WEBHOOK_AUTH /\ fpc = "responded" /\ fin.WEBHOOK_API_KEY = "")
           => fout.status = 500 /\ fout.invoked = 0 /\ ~fout.handled
    /\ (fin.REQUIRE_WEBHOOK_AUTH /\ fpc = "responded" /\ fin.WEBHOOK_API_KEY # ""
            /\ fin.apiKey # fin.WEBHOOK_API_KEY)
           => fout.status = 401 /\ fout.invoked = 0 /\ ~fout.handled
    /\ (~fin.REQUIRE_WEBHOOK_AUTH /\ fpc = "responded") => fout.handled

C23_Witness ==
    /\ fpc = "responded" /\ fin.REQUIRE_WEBHOOK_AUTH
    /\ fin.WEBHOOK_API_KEY = "secret" /\ fin.apiKey = "secret"
    /\ fin.id = "area_control" /\ fout.invoked = 1 /\ fout.status = 200


\* C24: for a message whose sender is not authorized (isAuthorizedSender
\* returned false, also when the contact lookup failed) the bot invokes no
\* command handler, does not run the chatbot router and sends no reply
C24_UnauthorizedIgnored ==
    /\ (fpc # "received" /\ ~fout.authorized)
           => fpc = "ignored" /\ fout.handlers = 0 /\ fout.router = 0 /\ fout.replies = 0
    /\ (fpc # "received" /\ fin.getContact = "rejects") => ~fout.authorized

C24_Witness ==
    /\ fpc = "ignored" /\ fin.getContact = "rejects" /\ fin.body = "!restart"
    /\ fin.ADMIN_NUMBERS = "12345" /\ fin.number = "12345"

\* the sender's digit string is that of an entry of ADMIN_NUMBERS
C29_Listed ==
    /\ Truthy(fin.number)
    /\ \E admin \in AdminNumbers(fin.ADMIN_NUMBERS) :
          OnlyDigits(fin.number) = OnlyDigits(admin)

\* C29: isAdmin(number) is true if and only if the digit string of number
\* equals the digit string of an entry of ADMIN_NUMBERS, so that message
\* authorization and !restart are available to no other number
C29_AdminIffListed ==
    /\ (fpc # "received" /\ fin.getContact = "resolves") => (fout.authorized = C29_Listed)
    /\ fout.restarted => C29_Listed


\* C30: when two subscribeUser / unsubscribeUser operations run concurrently,
\* their load and save steps interleaved in any order, and both report
\* success, the stored data reflects both changes (here for two operations on
\* different subscriptions, whose changes do not undo each other)
C30_NoLostUpdate ==
    (/\ fpc = <<"done", "done">>
     /\ fout.returned = <<TRUE, TRUE>>
     /\ <<fin[1].number, fin[1].channel>> # <<fin[2].number, fin[2].channel>>)
        => \A p \in 1..2 :
              (fin[p].kind = "subscribeUser") = (fin[p].number \in fout.file[fin[p].channel])

====
